---- MODULE Spec2Model ----
(***************************************************************************)
(* A model of nxdumptool's device-side USB link (source/usb.c): the public *)
(* operations usbInitialize, usbExit, usbIsReady, usbSendFileProperties    *)
(* and usbSendFileData running on application threads, the background      *)
(* detection thread, the four reader/writer locks, the three events the    *)
(* detection thread waits on, and the two bulk endpoints with their URBs   *)
(* and completion events.  The host and the platform's usb:ds service are  *)
(* the environment.                                                        *)
(*                                                                         *)
(* Every thread has a program counter pc[t] and a record of locals loc[t]. *)
(* A step of the model is the code between two points where a thread may   *)
(* block (a lock, an event wait, a join) or where the environment may act. *)
(*                                                                         *)
(* The second half models source/cert.c: the recovery of a certificate's   *)
(* type from its bytes (TypeSpec) and the retrieval of a certificate chain *)
(* from the ES system save, one lookup per name of the issuer string       *)
(* (CertSpec).  cert.c is single-threaded code; the save container, the    *)
(* allocator and the caller's arguments are its environment.               *)
(***************************************************************************)
EXTENDS Integers, Sequences, FiniteSets, TLC

(***************************************************************************)
(* Program constants.                                                      *)
(***************************************************************************)
USB_CMD_HEADER_MAGIC == 1314407508          \* 0x4E584454, "NXDT"
FS_MAX_PATH == 769                          \* 0x301

UsbCommandType_StartSession == 0
UsbCommandType_SendFileProperties == 1
UsbCommandType_EndSession == 3

UsbStatusType_Success == 0
UsbStatusType_WriteCommandFailed == 2
UsbStatusType_ReadStatusFailed == 3
UsbStatusType_InvalidMagicWord == 4
UsbStatusType_HostIoError == 8

\* usbDsGetState's state code of a configured device (usbIsHostAvailable).
UsbState_Configured == 5
\* The states usbDsGetState reports, reduced to the configured state and
\* one state that is not (0, the state of a detached device).
UsbStates == {0, UsbState_Configured}
UsbState_Initial == CHOOSE s \in UsbStates : s # UsbState_Configured

(***************************************************************************)
(* Bounds of the model.  Sizes are counted in chunks of arbitrary unit:    *)
(* USB_TRANSFER_BUFFER_SIZE stands for the transfer buffer's capacity and  *)
(* MaxFileSize for the largest file size a caller announces; MaxFileSize   *)
(* exceeds the buffer so that an oversized chunk can be offered.           *)
(***************************************************************************)
USB_TRANSFER_BUFFER_SIZE == 2
UsbFrameSize == 1                           \* a command or status frame, in the same unit
MaxFileSize == 3

AppThreads == {"main", "worker"}
DetThreads == {"det"}
Threads == AppThreads \cup DetThreads
NoThread == "nobody"

Locks == {"G", "iface", "in", "out"}
Endpoints == {"in", "out"}

\* "No command" and "no status": one below the first value of each enum.
NoCmd == UsbCommandType_StartSession - 1
NoStatus == UsbStatusType_Success - 1
NoFrame == [magic |-> <<>>, status |-> NoStatus]

\* The magic words a host may put in a status frame, as the four bytes on the
\* wire: "NXDT", the same word byte-reversed, and zeroes.
MagicNXDT == <<78, 88, 68, 84>>
HostMagicWords == {MagicNXDT, <<84, 68, 88, 78>>, <<0, 0, 0, 0>>}
HostStatusCodes == {UsbStatusType_Success, UsbStatusType_HostIoError}
StatusFrames == [magic : HostMagicWords, status : HostStatusCodes]

\* Inputs of the public operations.
FileSizes == 0..MaxFileSize
ChunkSizes == 0..MaxFileSize
FilenameLengths == {-1, 0, 1, FS_MAX_PATH - 1, FS_MAX_PATH}   \* -1: NULL
DataPointers == {"null", "aligned", "unaligned"}

VARIABLES
    lock,                             \* owner of g_usbDeviceLock ("G"),
                                      \* g_usbDeviceInterface.lock ("iface"),
                                      \* .lock_in ("in") and .lock_out ("out")
    iface_initialized,                \* g_usbDeviceInterface.initialized
    g_usbDeviceInterfaceInitialized,
    g_usbTransferBuffer,              \* TRUE: allocated
    g_usbStateChangeEvent,            \* TRUE: non-NULL
    g_usbDetectionThread,             \* the thread usbDestroyDetectionThread joins
    g_usbDetectionThreadCreated,
    g_usbDetectionThreadExitEvent,    \* UEvent, auto-clear: TRUE when signalled
    g_usbTimeoutEvent,                \* UEvent, auto-clear: TRUE when signalled
    g_usbHostAvailable,
    g_usbSessionStarted,
    g_usbDetectionThreadExitFlag,
    g_usbTransferRemainingSize,
    usbds,                            \* usb:ds service: "off", "init", "enabled"
    usbState,                         \* what usbDsGetState reports
    stateChangeSignal,                \* the kernel state-change event is signalled
    urb,                              \* per endpoint: "none", "posted", "done", "cancelling"
    CompletionEvent,                  \* per endpoint: the completion event is signalled
    pc,
    loc,
    unanswered,                       \* history: the command whose frame was written
                                      \* and for which no status read was issued yet
    fileSize,                         \* history: size announced for the file in progress
    sent,                             \* history: bytes of it written so far
    timedOut,                         \* history: a transfer of a started session gave up
                                      \* and the session was not reset since
    \* ---- source/cert.c: certGetCertificateType on its own ----
    type_pc,                          \* "idle", "call", "done"
    cert_data,                        \* data: the buffer, NoData for a NULL pointer
    cert_data_size,                   \* data_size
    stale,                            \* the four bytes a read past the buffer finds
    type,                             \* the value returned
    read_end,                         \* history: end of the highest read, 0 if none
    \* ---- source/cert.c: the chain functions ----
    cert_pc,                          \* position in cert.c, "idle" when nothing runs
    entry,                            \* the public function that was called
    issuer,                           \* its argument, NoString for NULL
    out_size,                         \* *out_size: "null" for a NULL pointer,
                                      \* NoSize until it is written
    chain,                            \* CertificateChain: [count, certs]
    certs_mem,                        \* the calloc'ed array: "none", "live", "freed"
    cloc,                             \* locals of the running functions
    raw_chain,                        \* NullPtr or the malloc'ed buffer
    success,                          \* what the chain retrieval returned
    open_saves,                       \* history: save contexts opened and not closed
    looked,                           \* history: names looked up, in order
    logmsg                            \* the last LOGFILE message

progvars == <<iface_initialized, g_usbDeviceInterfaceInitialized, g_usbTransferBuffer,
              g_usbStateChangeEvent, g_usbDetectionThread, g_usbDetectionThreadCreated>>
evvars == <<g_usbDetectionThreadExitEvent, g_usbTimeoutEvent>>
sessvars == <<g_usbHostAvailable, g_usbSessionStarted, g_usbTransferRemainingSize>>
envvars == <<usbds, usbState, stateChangeSignal>>
urbvars == <<urb, CompletionEvent>>
histvars == <<unanswered, fileSize, sent, timedOut>>

usbvars == <<lock, progvars, evvars, sessvars, g_usbDetectionThreadExitFlag, envvars,
             urbvars, pc, loc, histvars>>

typevars == <<type_pc, cert_data, cert_data_size, stale, type, read_end>>
chainvars == <<cert_pc, entry, issuer, out_size, chain, certs_mem, cloc, raw_chain, success,
               open_saves, looked, logmsg>>
certvars == <<typevars, chainvars>>

vars == <<usbvars, certvars>>

(***************************************************************************)
(* Locals of a thread: the arguments (drawn when the operation first reads  *)
(* them, under the locks) and result of the public operation it            *)
(* runs, the command in the transfer buffer's header, what usbSendCommand  *)
(* saw, and the frame of the usbRead/usbWrite/usbTransferData call in      *)
(* progress (ep, the place to return to, the result).                      *)
(***************************************************************************)
Loc0 == [op |-> "none", arg |-> 0, len |-> 0, ret |-> FALSE, rem0 |-> 0,
         cmd |-> NoCmd, status |-> NoStatus, wrote |-> FALSE, readok |-> FALSE,
         frame |-> NoFrame, reads |-> 0,
         ep |-> "none", ra |-> "none", xret |-> FALSE, thread_exit |-> FALSE,
         buf |-> "none", size |-> 0,
         signalled |-> FALSE,
         k |-> 0, idx |-> -1]

LocalsOf(op) == [Loc0 EXCEPT !.op = op]

(***************************************************************************)
(* Pure helpers.                                                           *)
(***************************************************************************)
\* __builtin_bswap32 on a 32-bit word.
Bswap32(x) ==
    ((x % 256) * 16777216) + (((x \div 256) % 256) * 65536)
      + (((x \div 65536) % 256) * 256) + ((x \div 16777216) % 256)

\* The u32 a little-endian CPU loads from four consecutive bytes.
LoadU32(b) == b[1] + (b[2] * 256) + (b[3] * 65536) + (b[4] * 16777216)

\* A comparison that forgets the byte swap.
StatusMagicValid_NoSwap(frame) == LoadU32(frame.magic) = USB_CMD_HEADER_MAGIC

\* cmd_status->magic != __builtin_bswap32(USB_CMD_HEADER_MAGIC), negated.
StatusMagicValid(frame) == LoadU32(frame.magic) = Bswap32(USB_CMD_HEADER_MAGIC)

\* usbIsHostAvailable: usbDsGetState succeeded and the state is 5.
usbIsHostAvailable == usbds = "enabled" /\ usbState = UsbState_Configured

EpLock(ep) == ep          \* usbWrite takes lock_in, usbRead takes lock_out

Held(t) == {l \in Locks : lock[l] = t}

SetPc(t, p) == pc' = [pc EXCEPT ![t] = p]
SetLoc(t, l) == loc' = [loc EXCEPT ![t] = l]
Acquire(t, l) == lock[l] = NoThread /\ lock' = [lock EXCEPT ![l] = t]
ReleaseAll(t, ls) == lock' = [l \in Locks |-> IF l \in ls /\ lock[l] = t THEN NoThread ELSE lock[l]]

\* IS_ALIGNED(buf, USB_TRANSFER_ALIGNMENT): the shared transfer buffer comes
\* from memalign(USB_TRANSFER_ALIGNMENT, ...); a caller's data may be aligned.
IS_ALIGNED(buf) == buf \in {"g_usbTransferBuffer", "aligned"}

\* A call of usbWrite (ep = "in") or usbRead (ep = "out") that returns to ra,
\* with the shared transfer buffer and a command or status frame in it, as
\* every caller but the chunk write of usbSendFileData passes them.
CallTransfer(l, ep, ra) ==
    [l EXCEPT !.ep = ep, !.ra = ra, !.xret = FALSE, !.thread_exit = FALSE,
              !.buf = "g_usbTransferBuffer", !.size = UsbFrameSize]

(***************************************************************************)
(* source/cert.c: the values cert.c takes from cert.h and signature.h.     *)
(* A certificate is a signature block (its first four bytes are the        *)
(* big-endian signature type), an issuer, a big-endian public key type, a  *)
(* name, a certificate id and a public key block.                          *)
(***************************************************************************)
SignatureType_Rsa4096Sha1 == 65536              \* 0x10000
SignatureType_Rsa2048Sha1 == 65537              \* 0x10001
SignatureType_Ecsda240Sha1 == 65538             \* 0x10002
SignatureType_Rsa4096Sha256 == 65539            \* 0x10003
SignatureType_Rsa2048Sha256 == 65540            \* 0x10004
SignatureType_Ecsda240Sha256 == 65541           \* 0x10005

CertPubKeyType_Rsa4096 == 0
CertPubKeyType_Rsa2048 == 1
CertPubKeyType_Ecsda240 == 2

SizeOf_SignatureBlockRsa4096 == 576             \* 0x240, sig_type included
SizeOf_SignatureBlockRsa2048 == 320             \* 0x140
SizeOf_SignatureBlockEcsda240 == 128            \* 0x80
SizeOf_CertPublicKeyBlockRsa4096 == 568         \* 0x238
SizeOf_CertPublicKeyBlockRsa2048 == 312         \* 0x138
SizeOf_CertPublicKeyBlockEcsda240 == 120        \* 0x78

MemberSize_issuer == 64                         \* 0x40
MemberSize_pub_key_type == 4
MemberSize_name == 64                           \* 0x40
MemberSize_cert_id == 4

\* sizeof of the certificate with the given signature and public key blocks.
SizeOf_Cert(sig_block, pub_key_block) ==
    sig_block + MemberSize_issuer + MemberSize_pub_key_type + MemberSize_name
      + MemberSize_cert_id + pub_key_block

CERT_MIN_SIZE == SizeOf_Cert(SizeOf_SignatureBlockEcsda240, SizeOf_CertPublicKeyBlockEcsda240)
CERT_MAX_SIZE == SizeOf_Cert(SizeOf_SignatureBlockRsa4096, SizeOf_CertPublicKeyBlockRsa4096)

CertType_Invalid == "CertType_Invalid"

SizeOf_issuer_copy == 64                        \* char issuer_copy[0x40]

(***************************************************************************)
(* Certificate buffers.  A buffer is described by the bytes the code can   *)
(* look at: the four bytes at offset 0 and the four bytes at each offset   *)
(* where a public key type can sit.  "from" is the name under which the    *)
(* save container stored the bytes (empty for a buffer handed in directly).*)
(***************************************************************************)
SigBlockSizes == {SizeOf_SignatureBlockRsa4096, SizeOf_SignatureBlockRsa2048,
                  SizeOf_SignatureBlockEcsda240}
PubKeyBlockSizes == {SizeOf_CertPublicKeyBlockRsa4096, SizeOf_CertPublicKeyBlockRsa2048,
                     SizeOf_CertPublicKeyBlockEcsda240}
PubKeyTypeOffsets == {b + MemberSize_issuer : b \in SigBlockSizes}

\* The four bytes that hold x in big-endian and in little-endian order.
BE32(x) == <<(x \div 16777216) % 256, (x \div 65536) % 256, (x \div 256) % 256, x % 256>>
LE32(x) == <<x % 256, (x \div 256) % 256, (x \div 65536) % 256, (x \div 16777216) % 256>>

SignatureTypes == {SignatureType_Rsa4096Sha1, SignatureType_Rsa2048Sha1,
                   SignatureType_Ecsda240Sha1, SignatureType_Rsa4096Sha256,
                   SignatureType_Rsa2048Sha256, SignatureType_Ecsda240Sha256}
CertPubKeyTypes == {CertPubKeyType_Rsa4096, CertPubKeyType_Rsa2048, CertPubKeyType_Ecsda240}

\* Bytes found at offset 0: the six types as stored, one past the last type,
\* and a type stored in the CPU's byte order.
SigTypeWords == {BE32(s) : s \in SignatureTypes}
                  \cup {BE32(SignatureType_Ecsda240Sha256 + 1),
                        LE32(SignatureType_Rsa2048Sha256)}
\* Bytes found where the public key type is read.
PubKeyTypeWords == {BE32(p) : p \in CertPubKeyTypes}
                     \cup {BE32(CertPubKeyType_Ecsda240 + 1), LE32(CertPubKeyType_Rsa2048)}
\* What memory past the end of a buffer may hold.
StaleWords == {BE32(CertPubKeyType_Rsa4096), BE32(CertPubKeyType_Rsa2048)}

NoData == [null |-> TRUE, from |-> <<>>, sig |-> <<>>, pk |-> <<>>]
Buffers == [null : {FALSE}, from : {<<>>}, sig : SigTypeWords,
            pk : [PubKeyTypeOffsets -> PubKeyTypeWords]]

\* Buffer lengths: the sizes of the valid layouts, the two limits and their
\* neighbours, and the lengths around the end of each public key type field.
BufferSizes ==
    {SizeOf_Cert(s, p) : s \in SigBlockSizes, p \in PubKeyBlockSizes}
      \cup {CERT_MIN_SIZE - 1, CERT_MAX_SIZE + 1}
      \cup {n \in {o + d : o \in PubKeyTypeOffsets, d \in {3, 4}} : n >= CERT_MIN_SIZE}

(***************************************************************************)
(* Strings are sequences of characters.                                    *)
(***************************************************************************)
NoString == <<"NULL">>                  \* a NULL char pointer
RootPrefix == <<"R", "o", "o", "t", "-">>
Pad(n) == [k \in 1..n |-> "a"]

\* Text after "Root-": every text of up to three characters over a, b and
\* the separator, some longer ones, texts with a percent sign, and texts
\* longer than issuer_copy.
ShortTails == UNION {[1..n -> {"a", "b", "-"}] : n \in 0..3}
Tails ==
    ShortTails
      \cup {<<"a", "-", "b", "-", "a">>, <<"b", "-", "-", "a", "-">>}
      \cup {<<"a", "%", "%", "b">>, <<"%", "a", "-", "b">>}
      \cup {Pad(SizeOf_issuer_copy - 3) \o <<"-", "b", "a", "b">>,
            Pad(SizeOf_issuer_copy - 2) \o <<"-", "b">>}
Issuers ==
    {RootPrefix \o t : t \in Tails}
      \cup {NoString, <<>>, <<"R", "o", "o", "t">>, <<"r", "o", "o", "t", "-", "a">>,
            <<"a", "-", "b">>}

(***************************************************************************)
(* source/cert.c: pure functions.                                          *)
(***************************************************************************)
\* sizeof of the signature block sig_type selects in the first switch of
\* certGetCertificateType, 0 for its default case.
SignatureBlockSize(sig_type) ==
    CASE sig_type \in {SignatureType_Rsa4096Sha1, SignatureType_Rsa4096Sha256} ->
           SizeOf_SignatureBlockRsa4096
      [] sig_type \in {SignatureType_Rsa2048Sha1, SignatureType_Rsa2048Sha256} ->
           SizeOf_SignatureBlockRsa2048
      [] sig_type \in {SignatureType_Ecsda240Sha1, SignatureType_Ecsda240Sha256} ->
           SizeOf_SignatureBlockEcsda240
      [] OTHER -> 0

\* sizeof of the public key block of the second switch, 0 for its default case.
PublicKeyBlockSize(pub_key_type) ==
    CASE pub_key_type = CertPubKeyType_Rsa4096 -> SizeOf_CertPublicKeyBlockRsa4096
      [] pub_key_type = CertPubKeyType_Rsa2048 -> SizeOf_CertPublicKeyBlockRsa2048
      [] pub_key_type = CertPubKeyType_Ecsda240 -> SizeOf_CertPublicKeyBlockEcsda240
      [] OTHER -> 0

\* A macro that ignores the public key type.
CERT_TYPE_IgnoresKey(sig, pub_key_type) == "CertType_Sig" \o sig \o "_PubKeyRsa4096"

\* The CERT_TYPE macro.
CERT_TYPE(sig, pub_key_type) ==
    IF pub_key_type = CertPubKeyType_Rsa4096 THEN "CertType_Sig" \o sig \o "_PubKeyRsa4096"
    ELSE IF pub_key_type = CertPubKeyType_Rsa2048
    THEN "CertType_Sig" \o sig \o "_PubKeyRsa2048"
    ELSE "CertType_Sig" \o sig \o "_PubKeyEcsda240"

\* memcpy(&x, data_u8 + offset, sizeof(u32)): the bytes of the buffer when
\* they lie inside it, whatever follows the buffer when they do not.
certGetCertificateType_Read(d, size, offset, st) ==
    IF offset = 0 THEN d.sig
    ELSE IF offset + 4 <= size THEN d.pk[offset] ELSE st

\* A comparison that accepts every end offset.
certGetCertificateType_SizeMatches_Always(offset, size) == TRUE

\* offset != data_size, negated.
certGetCertificateType_SizeMatches(offset, size) == offset = size

\* certGetCertificateType with the end of its highest read.
certGetCertificateType_Run(d, size, st) ==
    IF d.null \/ size < CERT_MIN_SIZE \/ size > CERT_MAX_SIZE
    THEN [type |-> CertType_Invalid, read_end |-> 0]
    ELSE
      LET sig_type == Bswap32(LoadU32(certGetCertificateType_Read(d, size, 0, st)))
          offset1 == SignatureBlockSize(sig_type) + MemberSize_issuer
          pub_key_type == Bswap32(LoadU32(certGetCertificateType_Read(d, size, offset1, st)))
          offset2 == offset1 + MemberSize_pub_key_type + MemberSize_name
                       + MemberSize_cert_id + PublicKeyBlockSize(pub_key_type)
      IN  IF SignatureBlockSize(sig_type) = 0
          THEN [type |-> CertType_Invalid, read_end |-> 4]
          ELSE IF PublicKeyBlockSize(pub_key_type) = 0
                  \/ ~certGetCertificateType_SizeMatches(offset2, size)
          THEN [type |-> CertType_Invalid, read_end |-> offset1 + 4]
          ELSE [type |->
                  IF sig_type \in {SignatureType_Rsa4096Sha1, SignatureType_Rsa4096Sha256}
                  THEN CERT_TYPE("Rsa4096", pub_key_type)
                  ELSE IF sig_type \in {SignatureType_Rsa2048Sha1,
                                        SignatureType_Rsa2048Sha256}
                  THEN CERT_TYPE("Rsa2048", pub_key_type)
                  ELSE CERT_TYPE("Ecsda240", pub_key_type),
                read_end |-> offset1 + 4]

certGetCertificateType(d, size, st) == certGetCertificateType_Run(d, size, st).type

\* The k-th smallest element of a set of numbers.
Nth(S, k) == CHOOSE i \in S : Cardinality({j \in S : j <= i}) = k

\* What printf makes of a format that comes without arguments.  A percent
\* sign after an even number of percent signs opens a conversion: "%%"
\* prints one percent sign, any other conversion has no argument to print
\* (undefined).
PercentsBefore(f, i) ==
    LET others == {j \in 1..(i - 1) : f[j] # "%"}
    IN  (i - 1) - (IF others = {} THEN 0 ELSE Nth(others, Cardinality(others)))

Format(f) ==
    LET opens == {i \in 1..Len(f) : f[i] = "%" /\ PercentsBefore(f, i) % 2 = 0}
        kept == {i \in 1..Len(f) : i \notin opens}
    IN  [defined |-> \A i \in opens : i < Len(f) /\ f[i + 1] = "%",
         text |-> [k \in 1..Cardinality(kept) |-> f[Nth(kept, k)]]]

\* snprintf(issuer_copy, 0x40, issuer + 5): at most 0x3F characters.
IssuerCopy(s) ==
    LET r == Format(SubSeq(s, Len(RootPrefix) + 1, Len(s)))
    IN  [defined |-> r.defined,
         text |-> SubSeq(r.text, 1, IF Len(r.text) < SizeOf_issuer_copy
                                   THEN Len(r.text) ELSE SizeOf_issuer_copy - 1)]

\* What the copy may hold when the format was undefined.
UndefinedTexts == {<<>>, <<"a">>, <<"a", "-", "b">>}
IssuerCopies(s) == IF IssuerCopy(s).defined THEN {IssuerCopy(s).text} ELSE UndefinedTexts

\* The tokens that strtok(s, "-") and the strtok(NULL, "-") calls after it
\* return: separators before a token are skipped, a token ends at the next
\* separator or at the end of the text.
strtok(s) ==
    LET starts == {i \in 1..Len(s) : s[i] # "-" /\ (i = 1 \/ s[i - 1] = "-")}
        EndOf(i) == Nth({j \in i..Len(s) : j = Len(s) \/ s[j + 1] = "-"}, 1)
    IN  [k \in 1..Cardinality(starts) |->
           SubSeq(s, Nth(starts, k), EndOf(Nth(starts, k)))]

\* certGetCertificateCountInSignatureIssuer, given what snprintf left in
\* issuer_copy.
certGetCertificateCountInSignatureIssuer(s, copy) ==
    IF s = NoString \/ Len(s) = 0 THEN 0 ELSE Len(strtok(copy))

\* strncmp(issuer, "Root-", 5) == 0
HasRootPrefix(s) == Len(s) >= Len(RootPrefix) /\ SubSeq(s, 1, Len(RootPrefix)) = RootPrefix

(***************************************************************************)
(* source/cert.c: values of the chain functions' state.                    *)
(***************************************************************************)
NoCerts == <<>>                         \* chain->certs == NULL
ZeroCert == [size |-> 0, type |-> CertType_Invalid, data |-> NoData]   \* calloc
ZeroChain == [count |-> 0, certs |-> NoCerts]                          \* chain = {0}
NoRaw == [ptr |-> "null", size |-> 0, writes |-> <<>>]                 \* raw_chain = NULL
NoOut == [ptr |-> "null", written |-> FALSE, value |-> 0]
OutParam == [ptr |-> "valid", written |-> FALSE, value |-> 0]
NoFile == [size |-> 0, sig |-> <<>>, pk |-> <<>>]

CLoc0 == [dst_null |-> FALSE,
          i |-> 0, pch |-> <<>>,                             \* chain retrieval
          name |-> <<>>, save_ctx |-> "null", file |-> NoFile, cert_size |-> 0,
          lsuccess |-> FALSE,                                \* the lookup in progress
          raw_chain_size |-> 0]

\* cert.c is not running.
TypeIdle ==
    /\ type_pc = "idle"
    /\ cert_data = NoData
    /\ cert_data_size = 0
    /\ stale = BE32(0)
    /\ type = CertType_Invalid
    /\ read_end = 0

ChainIdle ==
    /\ cert_pc = "idle"
    /\ entry = "none"
    /\ issuer = NoString
    /\ out_size = NoOut
    /\ chain = ZeroChain
    /\ certs_mem = "none"
    /\ cloc = CLoc0
    /\ raw_chain = NoRaw
    /\ success = FALSE
    /\ open_saves = 0
    /\ looked = <<>>
    /\ logmsg = ""

(***************************************************************************)
(* Initial state: nothing initialised, no detection thread, locks free.    *)
(***************************************************************************)
UsbInitGlobals ==
    /\ lock = [l \in Locks |-> NoThread]
    /\ iface_initialized = FALSE
    /\ g_usbDeviceInterfaceInitialized = FALSE
    /\ g_usbTransferBuffer = FALSE
    /\ g_usbStateChangeEvent = FALSE
    /\ g_usbDetectionThread = NoThread
    /\ g_usbDetectionThreadCreated = FALSE
    /\ g_usbDetectionThreadExitEvent = FALSE
    /\ g_usbTimeoutEvent = FALSE
    /\ g_usbHostAvailable = FALSE
    /\ g_usbSessionStarted = FALSE
    /\ g_usbDetectionThreadExitFlag = FALSE
    /\ g_usbTransferRemainingSize = 0
    /\ usbds = "off"
    /\ usbState = UsbState_Initial
    /\ stateChangeSignal = FALSE
    /\ urb = [e \in Endpoints |-> "none"]
    /\ CompletionEvent = [e \in Endpoints |-> FALSE]
    /\ unanswered = NoCmd
    /\ fileSize = 0
    /\ sent = 0
    /\ timedOut = FALSE

\* No thread runs anything.  dets: the threads thrd_create can start, none of
\* which exists yet.
UsbInitThreads(dets) ==
    /\ pc = [t \in AppThreads \cup dets |-> IF t \in dets THEN "none" ELSE "idle"]
    /\ loc = [t \in AppThreads \cup dets |-> Loc0]

UsbInit == UsbInitGlobals /\ UsbInitThreads(DetThreads)

Init == UsbInit /\ TypeIdle /\ ChainIdle

(***************************************************************************)
(* The environment: the host and the usb:ds service.                       *)
(***************************************************************************)
\* The USB state changes (cable plugged or pulled, host configures the
\* device): the kernel state-change event is signalled.
HostStateChange ==
    /\ usbds = "enabled"
    /\ usbState' = IF usbState = UsbState_Configured THEN UsbState_Initial
                   ELSE UsbState_Configured
    /\ stateChangeSignal' = TRUE
    /\ UNCHANGED <<lock, progvars, evvars, sessvars, g_usbDetectionThreadExitFlag,
                   usbds, urbvars, pc, loc, histvars>>
    /\ UNCHANGED certvars

\* The host takes (IN endpoint) or supplies (OUT endpoint) the data of a
\* posted URB: its completion event is signalled.
HostCompletesUrb(ep) ==
    /\ urb[ep] = "posted"
    /\ usbState = UsbState_Configured
    /\ urb' = [urb EXCEPT ![ep] = "done"]
    /\ CompletionEvent' = [CompletionEvent EXCEPT ![ep] = TRUE]
    /\ UNCHANGED <<lock, progvars, evvars, sessvars, g_usbDetectionThreadExitFlag,
                   envvars, pc, loc, histvars>>
    /\ UNCHANGED certvars

\* A cancelled URB completes: its completion event is signalled.
CancelCompletesUrb(ep) ==
    /\ urb[ep] = "cancelling"
    /\ urb' = [urb EXCEPT ![ep] = "done"]
    /\ CompletionEvent' = [CompletionEvent EXCEPT ![ep] = TRUE]
    /\ UNCHANGED <<lock, progvars, evvars, sessvars, g_usbDetectionThreadExitFlag,
                   envvars, pc, loc, histvars>>
    /\ UNCHANGED certvars

(***************************************************************************)
(* usbWrite, usbRead and usbTransferData, run by thread t with ep and the  *)
(* place to return to in its locals.                                       *)
(***************************************************************************)
\* usbTransferData returns r, and the usbRead/usbWrite around it releases
\* the endpoint lock and returns r too.
TransferReturn(t, l, r) ==
    /\ lock' = [lock EXCEPT ![EpLock(l.ep)] = NoThread]
    /\ pc' = [pc EXCEPT ![t] = l.ra]
    /\ loc' = [loc EXCEPT ![t] = [l EXCEPT !.xret = r, !.ep = "none", !.ra = "none",
                                            !.thread_exit = FALSE,
                                            !.buf = "none", !.size = 0]]
    /\ unanswered' = IF r /\ l.ep = "in" /\ l.cmd # NoCmd THEN l.cmd ELSE unanswered

usbWrite(t) ==
    /\ pc[t] = "ep_lock" /\ loc[t].ep = "in"
    /\ Acquire(t, EpLock("in"))
    /\ SetPc(t, "xfer_begin")
    /\ UNCHANGED <<progvars, evvars, sessvars, g_usbDetectionThreadExitFlag, envvars,
                   urbvars, loc, histvars>>
    /\ UNCHANGED certvars

usbRead(t) ==
    /\ pc[t] = "ep_lock" /\ loc[t].ep = "out"
    /\ Acquire(t, EpLock("out"))
    /\ SetPc(t, "xfer_begin")
    /\ SetLoc(t, [loc[t] EXCEPT !.reads = @ + 1])
    /\ UNCHANGED <<progvars, evvars, sessvars, g_usbDetectionThreadExitFlag, envvars,
                   urbvars, histvars>>
    /\ UNCHANGED certvars

\* if (!buf || !IS_ALIGNED((u64)buf, USB_TRANSFER_ALIGNMENT) || !size || !endpoint);
\* the endpoint is never NULL.
usbTransferData_Invalid(buf, size) ==
    buf \in {"null", "none"} \/ ~IS_ALIGNED(buf) \/ size = 0

\* Parameter and host checks, then usbDsEndpoint_PostBufferAsync, which may fail.
usbTransferData_Post(t) ==
    /\ pc[t] = "xfer_begin"
    /\ IF usbTransferData_Invalid(loc[t].buf, loc[t].size)
       THEN /\ TransferReturn(t, loc[t], FALSE)
            /\ UNCHANGED urb
       ELSE \/ /\ ~iface_initialized \/ ~usbIsHostAvailable
               /\ TransferReturn(t, loc[t], FALSE)
               /\ UNCHANGED urb
            \/ /\ iface_initialized /\ usbIsHostAvailable
               /\ TransferReturn(t, loc[t], FALSE)
               /\ UNCHANGED urb
            \/ /\ iface_initialized /\ usbIsHostAvailable
               /\ urb' = [urb EXCEPT ![loc[t].ep] = "posted"]
               /\ SetPc(t, "xfer_wait")
               /\ UNCHANGED <<lock, loc, unanswered>>
    /\ UNCHANGED <<progvars, evvars, sessvars, g_usbDetectionThreadExitFlag, envvars,
                   CompletionEvent, fileSize, sent, timedOut>>
    /\ UNCHANGED certvars

\* A wait that does not listen to the exit event.
usbTransferData_WaitExit_Deaf(t) == FALSE

\* waitMulti returns with idx = 1: the exit event fired (and cleared itself).
usbTransferData_WaitExit(t) ==
    /\ g_usbDetectionThreadExitEvent
    /\ g_usbDetectionThreadExitEvent' = FALSE
    /\ g_usbDetectionThreadExitFlag' = TRUE
    /\ SetLoc(t, [loc[t] EXCEPT !.thread_exit = TRUE])

\* A wait that is bounded whether or not a session is started.
usbTransferData_WaitBounded_Always == TRUE

\* if (g_usbSessionStarted): the wait is the eventWait with the 1 s timeout.
usbTransferData_WaitBounded == g_usbSessionStarted

\* The wait for the transfer to finish and the eventClear after it.  With a
\* session started: eventWait with the 1 s timeout.  Otherwise: waitMulti on
\* the completion event and the exit event, without timeout.
usbTransferData_Wait(t) ==
    /\ pc[t] = "xfer_wait"
    /\ \/ /\ CompletionEvent[loc[t].ep]
          /\ CompletionEvent' = [CompletionEvent EXCEPT ![loc[t].ep] = FALSE]
          /\ SetPc(t, "xfer_report")
          /\ UNCHANGED <<loc, g_usbDetectionThreadExitEvent, g_usbDetectionThreadExitFlag>>
       \/ /\ usbTransferData_WaitBounded
          /\ ~CompletionEvent[loc[t].ep]
          /\ SetPc(t, "xfer_cancel")
          /\ UNCHANGED <<loc, CompletionEvent, g_usbDetectionThreadExitEvent,
                         g_usbDetectionThreadExitFlag>>
       \/ /\ ~usbTransferData_WaitBounded
          /\ usbTransferData_WaitExit(t)
          /\ SetPc(t, "xfer_cancel")
          /\ UNCHANGED CompletionEvent
    /\ UNCHANGED <<lock, progvars, g_usbTimeoutEvent, sessvars, envvars, urb, histvars>>
    /\ UNCHANGED certvars

\* usbDsEndpoint_Cancel.
usbTransferData_Cancel(t) ==
    /\ pc[t] = "xfer_cancel"
    /\ urb' = [urb EXCEPT ![loc[t].ep] = IF @ = "posted" THEN "cancelling" ELSE @]
    /\ SetPc(t, "xfer_drain")
    /\ UNCHANGED <<lock, progvars, evvars, sessvars, g_usbDetectionThreadExitFlag,
                   envvars, CompletionEvent, loc, histvars>>
    /\ UNCHANGED certvars

\* A failure path that signals nothing.
usbTransferData_SignalTimeout_Never == UNCHANGED g_usbTimeoutEvent

\* if (g_usbSessionStarted) ueventSignal(&g_usbTimeoutEvent).
usbTransferData_SignalTimeout ==
    g_usbTimeoutEvent' = IF g_usbSessionStarted THEN TRUE ELSE g_usbTimeoutEvent

\* A drain that waits for the completion event and leaves it signalled.
usbTransferData_DrainClear_Never(ep) == UNCHANGED CompletionEvent

\* eventClear(&(endpoint->CompletionEvent)) after the blocking wait.
usbTransferData_DrainClear(ep) ==
    CompletionEvent' = [CompletionEvent EXCEPT ![ep] = FALSE]

\* eventWait(UINT64_MAX) on the completion event, eventClear, the timeout
\* event if a session is started, return false.
usbTransferData_Drain(t) ==
    /\ pc[t] = "xfer_drain"
    /\ CompletionEvent[loc[t].ep]
    /\ usbTransferData_DrainClear(loc[t].ep)
    /\ urb' = [urb EXCEPT ![loc[t].ep] = "none"]
    /\ usbTransferData_SignalTimeout
    /\ TransferReturn(t, [loc[t] EXCEPT !.signalled = g_usbTimeoutEvent'], FALSE)
    /\ UNCHANGED <<progvars, g_usbDetectionThreadExitEvent, sessvars,
                   g_usbDetectionThreadExitFlag, envvars, fileSize, sent>>
    /\ timedOut' = (timedOut \/ g_usbSessionStarted)
    /\ UNCHANGED certvars

\* usbDsEndpoint_GetReportData, usbDsParseReportData and the size check: any
\* of them may fail.  A read that succeeds leaves the host's frame in the
\* transfer buffer.
usbTransferData_Report(t) ==
    /\ pc[t] = "xfer_report"
    /\ urb' = [urb EXCEPT ![loc[t].ep] = "none"]
    /\ \/ TransferReturn(t, loc[t], FALSE)
       \/ /\ loc[t].ep = "in"
          /\ TransferReturn(t, loc[t], TRUE)
       \/ /\ loc[t].ep = "out"
          /\ \E f \in StatusFrames : TransferReturn(t, [loc[t] EXCEPT !.frame = f], TRUE)
    /\ UNCHANGED <<progvars, evvars, sessvars, g_usbDetectionThreadExitFlag, envvars,
                   CompletionEvent, fileSize, sent, timedOut>>
    /\ UNCHANGED certvars

usbTransferData(t) ==
    \/ usbTransferData_Post(t)
    \/ usbTransferData_Wait(t)
    \/ usbTransferData_Cancel(t)
    \/ usbTransferData_Drain(t)
    \/ usbTransferData_Report(t)

(***************************************************************************)
(* usbSendCommand, after the command header and block were prepared: the   *)
(* write of the command, the read of the status frame, the status.         *)
(***************************************************************************)
AfterCommand(l) == IF l.op = "det" THEN "ss_ret" ELSE "sfp_ret"

\* A status that trusts the frame whatever its magic word.
usbSendCommand_Status_NoMagicCheck(l) ==
    IF ~l.xret THEN UsbStatusType_ReadStatusFailed ELSE l.frame.status

\* What usbSendCommand returns once usbRead has returned l.xret.
usbSendCommand_Status(l) ==
    IF ~l.xret THEN UsbStatusType_ReadStatusFailed
    ELSE IF ~StatusMagicValid(l.frame) THEN UsbStatusType_InvalidMagicWord
         ELSE l.frame.status

usbSendCommand(t) ==
    /\ \/ /\ pc[t] = "cmd_wrote"
          /\ IF ~loc[t].xret
             THEN /\ SetLoc(t, [loc[t] EXCEPT !.status = UsbStatusType_WriteCommandFailed])
                  /\ SetPc(t, AfterCommand(loc[t]))
                  /\ UNCHANGED unanswered
             ELSE /\ SetLoc(t, CallTransfer([loc[t] EXCEPT !.wrote = TRUE], "out", "cmd_read"))
                  /\ SetPc(t, "ep_lock")
                  /\ unanswered' = NoCmd
       \/ /\ pc[t] = "cmd_read"
          /\ SetLoc(t, [loc[t] EXCEPT !.readok = loc[t].xret,
                                      !.status = usbSendCommand_Status(loc[t])])
          /\ SetPc(t, AfterCommand(loc[t]))
          /\ UNCHANGED unanswered
    /\ UNCHANGED <<lock, progvars, evvars, sessvars, g_usbDetectionThreadExitFlag,
                   envvars, urbvars, fileSize, sent, timedOut>>
    /\ UNCHANGED certvars

(***************************************************************************)
(* The detection thread.                                                   *)
(***************************************************************************)
\* waitMulti on the state-change event (0), the timeout event (1) and the
\* exit event (2); all three clear themselves when they wake a waiter.
usbDetectionThreadFunc_Wait(d) ==
    /\ pc[d] = "det_wait"
    /\ \/ /\ stateChangeSignal
          /\ stateChangeSignal' = FALSE
          /\ SetLoc(d, [LocalsOf("det") EXCEPT !.idx = 0])
          /\ UNCHANGED evvars
       \/ /\ g_usbTimeoutEvent
          /\ g_usbTimeoutEvent' = FALSE
          /\ SetLoc(d, [LocalsOf("det") EXCEPT !.idx = 1])
          /\ UNCHANGED <<stateChangeSignal, g_usbDetectionThreadExitEvent>>
       \/ /\ g_usbDetectionThreadExitEvent
          /\ g_usbDetectionThreadExitEvent' = FALSE
          /\ SetLoc(d, [LocalsOf("det") EXCEPT !.idx = 2])
          /\ UNCHANGED <<stateChangeSignal, g_usbTimeoutEvent>>
    /\ SetPc(d, "det_lockG")
    /\ UNCHANGED <<lock, progvars, sessvars, g_usbDetectionThreadExitFlag, usbds,
                   usbState, urbvars, histvars>>
    /\ UNCHANGED certvars

usbDetectionThreadFunc_Lock(d) ==
    /\ \/ pc[d] = "det_lockG" /\ Acquire(d, "G") /\ SetPc(d, "det_lockI")
       \/ pc[d] = "det_lockI" /\ Acquire(d, "iface") /\ SetPc(d, "det_body")
    /\ UNCHANGED <<progvars, evvars, sessvars, g_usbDetectionThreadExitFlag, envvars,
                   urbvars, loc, histvars>>
    /\ UNCHANGED certvars

\* A reset that is skipped when the host's availability did not change.
usbDetectionThreadFunc_Reset_OnChangeOnly ==
    /\ g_usbHostAvailable' = usbIsHostAvailable
    /\ IF g_usbHostAvailable = usbIsHostAvailable
       THEN UNCHANGED <<g_usbSessionStarted, g_usbTransferRemainingSize>>
       ELSE g_usbSessionStarted' = FALSE /\ g_usbTransferRemainingSize' = 0

\* A reset that forgets the transfer in progress.
usbDetectionThreadFunc_Reset_KeepsRemaining ==
    /\ g_usbHostAvailable' = usbIsHostAvailable
    /\ g_usbSessionStarted' = FALSE
    /\ UNCHANGED g_usbTransferRemainingSize

\* What every wake-up other than the exit event's does first.
usbDetectionThreadFunc_Reset ==
    /\ g_usbHostAvailable' = usbIsHostAvailable
    /\ g_usbSessionStarted' = FALSE
    /\ g_usbTransferRemainingSize' = 0

\* The body of one iteration up to the write of the StartSession command
\* (usbStartSession's parameter check and command preparation included).
usbDetectionThreadFunc_Body(d) ==
    /\ pc[d] = "det_body"
    /\ IF loc[d].idx = 2
       THEN /\ SetPc(d, "det_exit")
            /\ UNCHANGED <<lock, sessvars, loc, fileSize, sent, timedOut>>
       ELSE /\ usbDetectionThreadFunc_Reset
            /\ fileSize' = 0 /\ sent' = 0 /\ timedOut' = FALSE
            /\ IF ~usbIsHostAvailable
               THEN /\ ReleaseAll(d, {"iface", "G"})
                    /\ SetPc(d, "det_wait")
                    /\ SetLoc(d, LocalsOf("det"))
               ELSE IF ~g_usbTransferBuffer \/ ~g_usbDeviceInterfaceInitialized
                          \/ ~iface_initialized
                    THEN /\ SetPc(d, "det_after")
                         /\ UNCHANGED <<lock, loc>>
                    ELSE /\ SetLoc(d, CallTransfer(
                                [loc[d] EXCEPT !.cmd = UsbCommandType_StartSession],
                                "in", "cmd_wrote"))
                         /\ SetPc(d, "ep_lock")
                         /\ UNCHANGED lock
    /\ UNCHANGED <<progvars, evvars, g_usbDetectionThreadExitFlag, envvars, urbvars,
                   unanswered>>
    /\ UNCHANGED certvars

\* A return that starts the session whatever usbSendCommand reported.
usbStartSession_Return_Always(d) ==
    /\ pc[d] = "ss_ret"
    /\ g_usbSessionStarted' = TRUE
    /\ SetPc(d, "det_after")
    /\ UNCHANGED <<lock, progvars, evvars, g_usbHostAvailable, g_usbTransferRemainingSize,
                   g_usbDetectionThreadExitFlag, envvars, urbvars, loc, histvars>>
    /\ UNCHANGED certvars

\* usbStartSession returns: g_usbSessionStarted = usbStartSession().
usbStartSession_Return(d) ==
    /\ pc[d] = "ss_ret"
    /\ g_usbSessionStarted' = (loc[d].status = UsbStatusType_Success)
    /\ SetPc(d, "det_after")
    /\ UNCHANGED <<lock, progvars, evvars, g_usbHostAvailable, g_usbTransferRemainingSize,
                   g_usbDetectionThreadExitFlag, envvars, urbvars, loc, histvars>>
    /\ UNCHANGED certvars

\* An end of iteration that goes back to the wait with both locks held.
usbDetectionThreadFunc_After_KeepsLocks(d) ==
    /\ pc[d] = "det_after"
    /\ IF ~g_usbSessionStarted /\ g_usbDetectionThreadExitFlag
       THEN /\ SetPc(d, "det_exit")
            /\ UNCHANGED <<lock, loc>>
       ELSE /\ UNCHANGED lock
            /\ SetPc(d, "det_wait")
            /\ SetLoc(d, LocalsOf("det"))
    /\ UNCHANGED <<progvars, evvars, sessvars, g_usbDetectionThreadExitFlag, envvars,
                   urbvars, histvars>>
    /\ UNCHANGED certvars

\* An end of iteration that, when no session was established, keeps both
\* locks and attempts StartSession again at once.
usbDetectionThreadFunc_After_Retries(d) ==
    /\ pc[d] = "det_after"
    /\ IF ~g_usbSessionStarted /\ g_usbDetectionThreadExitFlag
       THEN /\ SetPc(d, "det_exit")
            /\ UNCHANGED <<lock, loc>>
       ELSE IF ~g_usbSessionStarted
            THEN /\ SetPc(d, "det_body")
                 /\ SetLoc(d, [LocalsOf("det") EXCEPT !.idx = loc[d].idx])
                 /\ UNCHANGED lock
            ELSE /\ ReleaseAll(d, {"iface", "G"})
                 /\ SetPc(d, "det_wait")
                 /\ SetLoc(d, LocalsOf("det"))
    /\ UNCHANGED <<progvars, evvars, sessvars, g_usbDetectionThreadExitFlag, envvars,
                   urbvars, histvars>>
    /\ UNCHANGED certvars

\* The exit check after usbStartSession, and the end of the iteration.
usbDetectionThreadFunc_After(d) ==
    /\ pc[d] = "det_after"
    /\ IF ~g_usbSessionStarted /\ g_usbDetectionThreadExitFlag
       THEN /\ SetPc(d, "det_exit")
            /\ UNCHANGED <<lock, loc>>
       ELSE /\ ReleaseAll(d, {"iface", "G"})
            /\ SetPc(d, "det_wait")
            /\ SetLoc(d, LocalsOf("det"))
    /\ UNCHANGED <<progvars, evvars, sessvars, g_usbDetectionThreadExitFlag, envvars,
                   urbvars, histvars>>
    /\ UNCHANGED certvars

\* After the loop: usbEndSession if a session is open.
usbEndSession(d) ==
    /\ pc[d] = "det_exit"
    /\ IF g_usbHostAvailable /\ g_usbSessionStarted /\ g_usbTransferBuffer
          /\ g_usbDeviceInterfaceInitialized /\ iface_initialized
       THEN /\ SetLoc(d, CallTransfer(
                   [LocalsOf("det") EXCEPT !.cmd = UsbCommandType_EndSession],
                   "in", "det_cleanup"))
            /\ SetPc(d, "ep_lock")
       ELSE /\ SetPc(d, "det_cleanup")
            /\ UNCHANGED loc
    /\ UNCHANGED <<lock, progvars, evvars, sessvars, g_usbDetectionThreadExitFlag,
                   envvars, urbvars, histvars>>
    /\ UNCHANGED certvars

\* A return that leaves the session flag as it was.
usbDetectionThreadFunc_Cleanup_KeepsSession(d) ==
    /\ pc[d] = "det_cleanup"
    /\ g_usbHostAvailable' = FALSE
    /\ g_usbDetectionThreadExitFlag' = FALSE
    /\ g_usbTransferRemainingSize' = 0
    /\ fileSize' = 0 /\ sent' = 0 /\ timedOut' = FALSE
    /\ ReleaseAll(d, {"iface", "G"})
    /\ SetPc(d, "terminated")
    /\ SetLoc(d, Loc0)
    /\ UNCHANGED <<progvars, evvars, envvars, urbvars, unanswered, g_usbSessionStarted>>
    /\ UNCHANGED certvars

\* The flags are cleared, the locks released, the thread returns.
usbDetectionThreadFunc_Cleanup(d) ==
    /\ pc[d] = "det_cleanup"
    /\ g_usbHostAvailable' = FALSE
    /\ g_usbSessionStarted' = FALSE
    /\ g_usbDetectionThreadExitFlag' = FALSE
    /\ g_usbTransferRemainingSize' = 0
    /\ fileSize' = 0 /\ sent' = 0 /\ timedOut' = FALSE
    /\ ReleaseAll(d, {"iface", "G"})
    /\ SetPc(d, "terminated")
    /\ SetLoc(d, Loc0)
    /\ UNCHANGED <<progvars, evvars, envvars, urbvars, unanswered>>
    /\ UNCHANGED certvars

usbDetectionThreadFunc(d) ==
    \/ usbDetectionThreadFunc_Wait(d)
    \/ usbDetectionThreadFunc_Lock(d)
    \/ usbDetectionThreadFunc_Body(d)
    \/ usbStartSession_Return(d)
    \/ usbDetectionThreadFunc_After(d)
    \/ usbEndSession(d)
    \/ usbDetectionThreadFunc_Cleanup(d)

(***************************************************************************)
(* usbIsReady, usbSendFileProperties and usbSendFileData.                  *)
(***************************************************************************)
\* The two locks every public transfer operation takes first.
LockBoth(t, op) ==
    /\ loc[t].op = op
    /\ \/ pc[t] = "op_lockG" /\ Acquire(t, "G") /\ SetPc(t, "op_lockI")
       \/ pc[t] = "op_lockI" /\ Acquire(t, "iface") /\ SetPc(t, "op_body")
    /\ UNCHANGED <<progvars, evvars, sessvars, g_usbDetectionThreadExitFlag, envvars,
                   urbvars, loc, histvars>>
    /\ UNCHANGED certvars

\* The operation returns: both locks are released.
UnlockBoth(t) ==
    /\ ReleaseAll(t, {"iface", "G"})
    /\ SetPc(t, "idle")
    /\ SetLoc(t, Loc0)

usbIsReady_Call(t) ==
    /\ pc[t] = "idle"
    /\ SetPc(t, "op_lockG")
    /\ SetLoc(t, LocalsOf("isready"))
    /\ UNCHANGED <<lock, progvars, evvars, sessvars, g_usbDetectionThreadExitFlag,
                   envvars, urbvars, histvars>>
    /\ UNCHANGED certvars

usbIsReady(t) ==
    \/ LockBoth(t, "isready")
    \/ /\ pc[t] = "op_body" /\ loc[t].op = "isready"
       /\ SetLoc(t, [loc[t] EXCEPT !.ret = g_usbHostAvailable /\ g_usbSessionStarted])
       /\ SetPc(t, "op_unlock")
       /\ UNCHANGED <<lock, progvars, evvars, sessvars, g_usbDetectionThreadExitFlag,
                      envvars, urbvars, histvars>>
       /\ UNCHANGED certvars
    \/ /\ pc[t] = "op_unlock" /\ loc[t].op = "isready"
       /\ UnlockBoth(t)
       /\ UNCHANGED <<progvars, evvars, sessvars, g_usbDetectionThreadExitFlag,
                      envvars, urbvars, histvars>>
       /\ UNCHANGED certvars

usbSendFileProperties_Call(t) ==
    /\ pc[t] = "idle"
    /\ SetLoc(t, LocalsOf("sfp"))
    /\ SetPc(t, "op_lockG")
    /\ UNCHANGED <<lock, progvars, evvars, sessvars, g_usbDetectionThreadExitFlag,
                   envvars, urbvars, histvars>>
    /\ UNCHANGED certvars

\* A check that lets a new file start while another is in progress.
usbSendFileProperties_Invalid_IgnoresRemaining(filename_length) ==
    \/ ~g_usbTransferBuffer \/ ~g_usbDeviceInterfaceInitialized \/ ~iface_initialized
    \/ ~g_usbHostAvailable \/ ~g_usbSessionStarted
    \/ filename_length = -1 \/ filename_length = 0 \/ filename_length >= FS_MAX_PATH

\* A check that lets a file start without a session.
usbSendFileProperties_Invalid_IgnoresSession(filename_length) ==
    \/ ~g_usbTransferBuffer \/ ~g_usbDeviceInterfaceInitialized \/ ~iface_initialized
    \/ ~g_usbHostAvailable
    \/ g_usbTransferRemainingSize > 0
    \/ filename_length = -1 \/ filename_length = 0 \/ filename_length >= FS_MAX_PATH

\* The parameter check of usbSendFileProperties (filename NULL is len = -1).
usbSendFileProperties_Invalid(filename_length) ==
    \/ ~g_usbTransferBuffer \/ ~g_usbDeviceInterfaceInitialized \/ ~iface_initialized
    \/ ~g_usbHostAvailable \/ ~g_usbSessionStarted
    \/ g_usbTransferRemainingSize > 0
    \/ filename_length = -1 \/ filename_length = 0 \/ filename_length >= FS_MAX_PATH

\* A file is never registered with less than one byte to send.
usbSendFileProperties_Remaining_AtLeastOne(file_size) ==
    IF file_size = 0 THEN 1 ELSE file_size

\* g_usbTransferRemainingSize = file_size.
usbSendFileProperties_Remaining(file_size) == file_size

usbSendFileProperties(t) ==
    \/ LockBoth(t, "sfp")
    \/ /\ pc[t] = "op_body" /\ loc[t].op = "sfp"
       /\ \E file_size \in FileSizes, filename_length \in FilenameLengths :
             IF usbSendFileProperties_Invalid(filename_length)
             THEN /\ SetPc(t, "op_unlock")
                  /\ SetLoc(t, [loc[t] EXCEPT !.len = filename_length,
                                              !.rem0 = g_usbTransferRemainingSize])
             ELSE /\ SetLoc(t, CallTransfer(
                         [loc[t] EXCEPT !.arg = file_size, !.len = filename_length,
                                        !.rem0 = g_usbTransferRemainingSize,
                                        !.cmd = UsbCommandType_SendFileProperties],
                         "in", "cmd_wrote"))
                  /\ SetPc(t, "ep_lock")
       /\ UNCHANGED <<lock, progvars, evvars, sessvars, g_usbDetectionThreadExitFlag,
                      envvars, urbvars, histvars>>
       /\ UNCHANGED certvars
    \/ /\ pc[t] = "sfp_ret"
       /\ IF loc[t].status = UsbStatusType_Success
          THEN /\ SetLoc(t, [loc[t] EXCEPT !.ret = TRUE])
               /\ g_usbTransferRemainingSize' = usbSendFileProperties_Remaining(loc[t].arg)
               /\ fileSize' = loc[t].arg /\ sent' = 0
          ELSE /\ UNCHANGED <<loc, g_usbTransferRemainingSize, fileSize, sent>>
       /\ SetPc(t, "op_unlock")
       /\ UNCHANGED <<lock, progvars, evvars, g_usbHostAvailable, g_usbSessionStarted,
                      g_usbDetectionThreadExitFlag, envvars, urbvars, unanswered, timedOut>>
       /\ UNCHANGED certvars
    \/ /\ pc[t] = "op_unlock" /\ loc[t].op = "sfp"
       /\ UnlockBoth(t)
       /\ UNCHANGED <<progvars, evvars, sessvars, g_usbDetectionThreadExitFlag,
                      envvars, urbvars, histvars>>
       /\ UNCHANGED certvars

usbSendFileData_Call(t) ==
    /\ pc[t] = "idle"
    /\ SetLoc(t, LocalsOf("sfd"))
    /\ SetPc(t, "op_lockG")
    /\ UNCHANGED <<lock, progvars, evvars, sessvars, g_usbDetectionThreadExitFlag,
                   envvars, urbvars, histvars>>
    /\ UNCHANGED certvars

\* The parameter check of usbSendFileData.
usbSendFileData_Invalid(data, data_size) ==
    \/ ~g_usbTransferBuffer \/ ~g_usbDeviceInterfaceInitialized \/ ~iface_initialized
    \/ ~g_usbHostAvailable \/ ~g_usbSessionStarted
    \/ g_usbTransferRemainingSize = 0
    \/ data = "null"
    \/ data_size = 0 \/ data_size > USB_TRANSFER_BUFFER_SIZE
    \/ data_size > g_usbTransferRemainingSize

\* A chunk write that always passes the caller's pointer on.
usbSendFileData_Buffer_ZeroCopy(data) == data

\* buf = data if data is aligned, else g_usbTransferBuffer after the memcpy.
usbSendFileData_Buffer(data) ==
    IF IS_ALIGNED(data) THEN data ELSE "g_usbTransferBuffer"

\* A decrement by one chunk unit whatever the chunk's size.
usbSendFileData_Remaining_ByOne(remaining, data_size) == remaining - 1

\* g_usbTransferRemainingSize -= data_size.
usbSendFileData_Remaining(remaining, data_size) == remaining - data_size

\* A status frame expected after every chunk.
usbSendFileData_LastChunk_Always(remaining) == TRUE

\* if (!g_usbTransferRemainingSize): this was the last chunk.
usbSendFileData_LastChunk(remaining) == remaining = 0

\* An end that leaves the remaining size as a failed call found it.
usbSendFileData_End_KeepsRemaining(ret) == UNCHANGED sessvars

\* An end that gives the session up with the file.
usbSendFileData_End_DropsSession(ret) ==
    /\ g_usbTransferRemainingSize' = IF ~ret THEN 0 ELSE g_usbTransferRemainingSize
    /\ g_usbSessionStarted' = (ret /\ g_usbSessionStarted)
    /\ UNCHANGED g_usbHostAvailable

\* end: if (!ret) g_usbTransferRemainingSize = 0.
usbSendFileData_End(ret) ==
    /\ g_usbTransferRemainingSize' = IF ~ret THEN 0 ELSE g_usbTransferRemainingSize
    /\ UNCHANGED <<g_usbHostAvailable, g_usbSessionStarted>>

usbSendFileData(t) ==
    \/ LockBoth(t, "sfd")
    \/ /\ pc[t] = "op_body" /\ loc[t].op = "sfd"
       /\ \E data \in DataPointers, data_size \in ChunkSizes :
             IF usbSendFileData_Invalid(data, data_size)
             THEN /\ SetPc(t, "sfd_end")
                  /\ SetLoc(t, [loc[t] EXCEPT !.rem0 = g_usbTransferRemainingSize])
             ELSE /\ SetLoc(t, [CallTransfer(
                         [loc[t] EXCEPT !.arg = data_size,
                                        !.rem0 = g_usbTransferRemainingSize],
                         "in", "sfd_wrote")
                       EXCEPT !.buf = usbSendFileData_Buffer(data), !.size = data_size])
                  /\ SetPc(t, "ep_lock")
       /\ UNCHANGED <<lock, progvars, evvars, sessvars, g_usbDetectionThreadExitFlag,
                      envvars, urbvars, histvars>>
       /\ UNCHANGED certvars
    \/ /\ pc[t] = "sfd_wrote"
       /\ IF ~loc[t].xret
          THEN /\ SetPc(t, "sfd_end")
               /\ UNCHANGED <<loc, g_usbTransferRemainingSize, sent>>
          ELSE /\ g_usbTransferRemainingSize' =
                      usbSendFileData_Remaining(g_usbTransferRemainingSize, loc[t].arg)
               /\ sent' = sent + loc[t].arg
               /\ IF usbSendFileData_LastChunk(g_usbTransferRemainingSize')
                  THEN /\ SetLoc(t, CallTransfer(
                              [loc[t] EXCEPT !.ret = TRUE, !.wrote = TRUE],
                              "out", "sfd_read"))
                       /\ SetPc(t, "ep_lock")
                  ELSE /\ SetLoc(t, [loc[t] EXCEPT !.ret = TRUE, !.wrote = TRUE])
                       /\ SetPc(t, "sfd_end")
       /\ UNCHANGED <<lock, progvars, evvars, g_usbHostAvailable, g_usbSessionStarted,
                      g_usbDetectionThreadExitFlag, envvars, urbvars, unanswered, fileSize,
                      timedOut>>
       /\ UNCHANGED certvars
    \/ /\ pc[t] = "sfd_read"
       /\ SetLoc(t, [loc[t] EXCEPT
              !.readok = loc[t].xret,
              !.ret = /\ loc[t].xret
                      /\ StatusMagicValid(loc[t].frame)
                      /\ loc[t].frame.status = UsbStatusType_Success])
       /\ SetPc(t, "sfd_end")
       /\ UNCHANGED <<lock, progvars, evvars, sessvars, g_usbDetectionThreadExitFlag,
                      envvars, urbvars, histvars>>
       /\ UNCHANGED certvars
    \/ /\ pc[t] = "sfd_end"
       /\ usbSendFileData_End(loc[t].ret)
       /\ SetPc(t, "op_unlock")
       /\ UNCHANGED <<lock, progvars, evvars,
                      g_usbDetectionThreadExitFlag, envvars, urbvars, loc, histvars>>
       /\ UNCHANGED certvars
    \/ /\ pc[t] = "op_unlock" /\ loc[t].op = "sfd"
       /\ UnlockBoth(t)
       /\ fileSize' = IF g_usbTransferRemainingSize = 0 THEN 0 ELSE fileSize
       /\ sent' = IF g_usbTransferRemainingSize = 0 THEN 0 ELSE sent
       /\ UNCHANGED <<progvars, evvars, sessvars, g_usbDetectionThreadExitFlag,
                      envvars, urbvars, unanswered, timedOut>>
       /\ UNCHANGED certvars

(***************************************************************************)
(* usbInitialize and usbExit, with usbInitializeComms, usbCloseComms and   *)
(* usbFreeDeviceInterface.                                                 *)
(***************************************************************************)
\* The endpoint locks taken in the other order.
usbInitializeComms_LockOrder_OutFirst == <<"iface", "out", "in">>

\* The order in which usbInitializeComms takes the interface's locks.
usbInitializeComms_LockOrder == <<"iface", "in", "out">>
\* The order in which usbFreeDeviceInterface takes them.
usbFreeDeviceInterface_LockOrder == <<"iface", "in", "out">>

\* usbInitialize is called when the link is not initialised (its documented
\* precondition): by the thread that owns the link's life cycle.
usbInitialize_Call(t) ==
    /\ pc[t] = "idle"
    /\ ~g_usbDetectionThreadCreated
    /\ SetPc(t, "init_lockG")
    /\ SetLoc(t, LocalsOf("init"))
    /\ UNCHANGED <<lock, progvars, evvars, sessvars, g_usbDetectionThreadExitFlag,
                   envvars, urbvars, histvars>>
    /\ UNCHANGED certvars

\* usbInitialize is called whatever the state of the link: nothing in the code
\* keeps a caller from calling it again.
usbInitialize_CallAnyTime(t) ==
    /\ pc[t] = "idle"
    /\ SetPc(t, "init_lockG")
    /\ SetLoc(t, LocalsOf("init"))
    /\ UNCHANGED <<lock, progvars, evvars, sessvars, g_usbDetectionThreadExitFlag,
                   envvars, urbvars, histvars>>
    /\ UNCHANGED certvars

\* usbDsExit: the service session is closed, its events and endpoints with it.
usbDsExit ==
    /\ usbds' = "off"
    /\ usbState' = UsbState_Initial
    /\ stateChangeSignal' = FALSE
    /\ urb' = [e \in Endpoints |-> "none"]
    /\ CompletionEvent' = [e \in Endpoints |-> FALSE]

\* A usbCloseComms that does not free the interface.
usbCloseComms_SkipsFree(t) ==
    /\ pc[t] = "cc_begin"
    /\ usbDsExit
    /\ g_usbDeviceInterfaceInitialized' = FALSE
    /\ SetPc(t, IF loc[t].op = "init" THEN "init_end" ELSE "exit_free")
    /\ UNCHANGED <<lock, iface_initialized, g_usbTransferBuffer, g_usbStateChangeEvent,
                   g_usbDetectionThread, g_usbDetectionThreadCreated, evvars, sessvars,
                   g_usbDetectionThreadExitFlag, loc, histvars>>
    /\ UNCHANGED certvars

\* usbCloseComms up to usbFreeDeviceInterface's first lock.
usbCloseComms(t) ==
    /\ pc[t] = "cc_begin"
    /\ usbDsExit
    /\ g_usbDeviceInterfaceInitialized' = FALSE
    /\ SetLoc(t, [loc[t] EXCEPT !.k = 0])
    /\ SetPc(t, "fd_lock")
    /\ UNCHANGED <<lock, iface_initialized, g_usbTransferBuffer, g_usbStateChangeEvent,
                   g_usbDetectionThread, g_usbDetectionThreadCreated, evvars, sessvars,
                   g_usbDetectionThreadExitFlag, histvars>>
    /\ UNCHANGED certvars

\* Where usbCloseComms returns to: usbInitializeComms' end (which returns
\* false to usbInitialize), or usbExit.
AfterCloseComms(l) == IF l.op = "init" THEN "init_end" ELSE "exit_free"

usbFreeDeviceInterface(t) ==
    /\ \/ /\ pc[t] = "fd_lock"
          /\ Acquire(t, usbFreeDeviceInterface_LockOrder[loc[t].k + 1])
          /\ SetLoc(t, [loc[t] EXCEPT !.k = @ + 1])
          /\ SetPc(t, IF loc[t].k + 1 = 1 /\ ~iface_initialized THEN "fd_unlock"
                      ELSE IF loc[t].k + 1 = Len(usbFreeDeviceInterface_LockOrder)
                           THEN "fd_body" ELSE "fd_lock")
          /\ UNCHANGED iface_initialized
       \/ /\ pc[t] = "fd_body"
          /\ iface_initialized' = FALSE
          /\ SetPc(t, "fd_unlock")
          /\ UNCHANGED <<lock, loc>>
       \/ /\ pc[t] = "fd_unlock"
          /\ ReleaseAll(t, {"out", "in", "iface"})
          /\ SetPc(t, AfterCloseComms(loc[t]))
          /\ UNCHANGED <<loc, iface_initialized>>
    /\ UNCHANGED <<g_usbDeviceInterfaceInitialized, g_usbTransferBuffer,
                   g_usbStateChangeEvent, g_usbDetectionThread,
                   g_usbDetectionThreadCreated, evvars, sessvars,
                   g_usbDetectionThreadExitFlag, envvars, urbvars, histvars>>
    /\ UNCHANGED certvars

usbInitializeComms(t) ==
    /\ \/ /\ pc[t] = "ic_lock"
          /\ Acquire(t, usbInitializeComms_LockOrder[loc[t].k + 1])
          /\ SetLoc(t, [loc[t] EXCEPT !.k = @ + 1])
          /\ SetPc(t, IF loc[t].k + 1 = Len(usbInitializeComms_LockOrder)
                      THEN "ic_iface" ELSE "ic_lock")
          /\ UNCHANGED <<iface_initialized, g_usbDeviceInterfaceInitialized, usbds>>
       \/ \* usbInitializeDeviceInterface sets the flag first and may fail at
          \* any of its calls; then usbDsEnable, which may fail too.
          /\ pc[t] = "ic_iface"
          /\ iface_initialized' = TRUE
          /\ ReleaseAll(t, {"out", "in", "iface"})
          /\ UNCHANGED loc
          /\ \/ /\ SetPc(t, "cc_begin")
                /\ UNCHANGED <<g_usbDeviceInterfaceInitialized, usbds>>
             \/ /\ g_usbDeviceInterfaceInitialized' = TRUE
                /\ usbds' = "enabled"
                /\ SetPc(t, "init_event")
    /\ UNCHANGED <<g_usbTransferBuffer, g_usbStateChangeEvent, g_usbDetectionThread,
                   g_usbDetectionThreadCreated, evvars, sessvars,
                   g_usbDetectionThreadExitFlag, usbState, stateChangeSignal, urbvars,
                   histvars>>
    /\ UNCHANGED certvars

usbInitialize(t) ==
    \/ /\ pc[t] = "init_lockG"
       /\ Acquire(t, "G")
       /\ SetPc(t, "init_alloc")
       /\ UNCHANGED <<progvars, evvars, sessvars, g_usbDetectionThreadExitFlag, envvars,
                      urbvars, loc, histvars>>
       /\ UNCHANGED certvars
    \/ \* usbAllocateTransferBuffer, then usbInitializeComms up to its locks:
       \* usbDsInitialize and the descriptor calls, each of which may fail.
       /\ pc[t] = "init_alloc"
       /\ \/ /\ ~g_usbTransferBuffer
             /\ SetPc(t, "init_end")
             /\ UNCHANGED <<g_usbTransferBuffer, usbds, loc>>
          \/ /\ g_usbTransferBuffer' = TRUE
             /\ IF g_usbDeviceInterfaceInitialized /\ iface_initialized
                THEN /\ SetPc(t, "init_event")
                     /\ UNCHANGED <<usbds, loc>>
                ELSE \/ /\ SetPc(t, "cc_begin")
                        /\ \E s \in {"off", "init"} : usbds' = s
                        /\ UNCHANGED loc
                     \/ /\ usbds' = "init"
                        /\ SetLoc(t, [loc[t] EXCEPT !.k = 0])
                        /\ SetPc(t, "ic_lock")
       /\ UNCHANGED <<lock, iface_initialized, g_usbDeviceInterfaceInitialized,
                      g_usbStateChangeEvent, g_usbDetectionThread,
                      g_usbDetectionThreadCreated, evvars, sessvars,
                      g_usbDetectionThreadExitFlag, usbState, stateChangeSignal,
                      urbvars, histvars>>
       /\ UNCHANGED certvars
    \/ \* usbDsGetStateChangeEvent, the two ueventCreate, usbCreateDetectionThread.
       /\ pc[t] = "init_event"
       /\ SetPc(t, "init_end")
       /\ \/ /\ g_usbStateChangeEvent' = FALSE
             /\ UNCHANGED <<evvars, g_usbDetectionThread, g_usbDetectionThreadCreated,
                            loc>>
          \/ /\ g_usbStateChangeEvent' = TRUE
             /\ g_usbDetectionThreadExitEvent' = FALSE
             /\ g_usbTimeoutEvent' = FALSE
             /\ g_usbDetectionThreadCreated' = FALSE
             /\ UNCHANGED <<g_usbDetectionThread, loc>>
       /\ UNCHANGED <<lock, iface_initialized, g_usbDeviceInterfaceInitialized,
                      g_usbTransferBuffer, sessvars, g_usbDetectionThreadExitFlag,
                      envvars, urbvars, histvars>>
       /\ UNCHANGED certvars
    \/ \* The same, with thrd_create succeeding: the detection thread starts.
       /\ pc[t] = "init_event"
       /\ \E d \in DOMAIN pc \ AppThreads :
             /\ pc[d] = "none"
             /\ pc' = [pc EXCEPT ![t] = "init_end", ![d] = "det_wait"]
             /\ loc' = [loc EXCEPT ![t] = [loc[t] EXCEPT !.ret = TRUE],
                                   ![d] = LocalsOf("det")]
             /\ g_usbDetectionThread' = d
       /\ g_usbStateChangeEvent' = TRUE
       /\ g_usbDetectionThreadExitEvent' = FALSE
       /\ g_usbTimeoutEvent' = FALSE
       /\ g_usbDetectionThreadCreated' = TRUE
       /\ UNCHANGED <<lock, iface_initialized, g_usbDeviceInterfaceInitialized,
                      g_usbTransferBuffer, sessvars, g_usbDetectionThreadExitFlag,
                      envvars, urbvars, histvars>>
       /\ UNCHANGED certvars
    \/ /\ pc[t] = "init_end"
       /\ ReleaseAll(t, {"G"})
       /\ SetPc(t, "idle")
       /\ SetLoc(t, Loc0)
       /\ UNCHANGED <<progvars, evvars, sessvars, g_usbDetectionThreadExitFlag, envvars,
                      urbvars, histvars>>
       /\ UNCHANGED certvars

usbExit_Call(t) ==
    /\ pc[t] = "idle"
    /\ SetPc(t, "exit_check")
    /\ SetLoc(t, LocalsOf("exit"))
    /\ UNCHANGED <<lock, progvars, evvars, sessvars, g_usbDetectionThreadExitFlag,
                   envvars, urbvars, histvars>>
    /\ UNCHANGED certvars

\* usbDestroyDetectionThread: the exit event is signalled, then thrd_join.
usbDestroyDetectionThread(t) ==
    /\ \/ /\ pc[t] = "exit_signal"
          /\ g_usbDetectionThreadExitEvent' = TRUE
          /\ SetPc(t, "exit_join")
          /\ UNCHANGED <<g_usbDetectionThreadCreated>>
       \/ /\ pc[t] = "exit_join"
          /\ pc[g_usbDetectionThread] = "terminated"
          /\ pc' = [pc EXCEPT ![t] = "exit_lockG", ![g_usbDetectionThread] = "none"]
          /\ g_usbDetectionThreadCreated' = FALSE
          /\ UNCHANGED g_usbDetectionThreadExitEvent
    /\ UNCHANGED <<lock, iface_initialized, g_usbDeviceInterfaceInitialized,
                   g_usbTransferBuffer, g_usbStateChangeEvent, g_usbDetectionThread,
                   g_usbTimeoutEvent, sessvars, g_usbDetectionThreadExitFlag, envvars,
                   urbvars, loc, histvars>>
    /\ UNCHANGED certvars

\* A usbExit that takes the global lock first and joins under it.
usbExit_LockBeforeJoin(t) ==
    \/ /\ pc[t] = "exit_check"
       /\ Acquire(t, "G")
       /\ SetPc(t, IF g_usbDetectionThreadCreated THEN "exit_signal" ELSE "exit_lockG")
       /\ UNCHANGED <<progvars, evvars, sessvars, g_usbDetectionThreadExitFlag,
                      envvars, urbvars, loc, histvars>>
       /\ UNCHANGED certvars
    \/ usbDestroyDetectionThread(t)
    \/ /\ pc[t] = "exit_lockG"
       /\ g_usbStateChangeEvent' = FALSE
       /\ SetPc(t, "cc_begin")
       /\ UNCHANGED <<lock, iface_initialized, g_usbDeviceInterfaceInitialized,
                      g_usbTransferBuffer, g_usbDetectionThread,
                      g_usbDetectionThreadCreated, evvars, sessvars,
                      g_usbDetectionThreadExitFlag, envvars, urbvars, loc, histvars>>
       /\ UNCHANGED certvars
    \/ /\ pc[t] = "exit_free"
       /\ g_usbTransferBuffer' = FALSE
       /\ ReleaseAll(t, {"G"})
       /\ SetPc(t, "idle")
       /\ SetLoc(t, Loc0)
       /\ UNCHANGED <<iface_initialized, g_usbDeviceInterfaceInitialized,
                      g_usbStateChangeEvent, g_usbDetectionThread,
                      g_usbDetectionThreadCreated, evvars, sessvars,
                      g_usbDetectionThreadExitFlag, envvars, urbvars, histvars>>
       /\ UNCHANGED certvars

usbExit(t) ==
    \/ /\ pc[t] = "exit_check"
       /\ SetPc(t, IF g_usbDetectionThreadCreated THEN "exit_signal" ELSE "exit_lockG")
       /\ UNCHANGED <<lock, progvars, evvars, sessvars, g_usbDetectionThreadExitFlag,
                      envvars, urbvars, loc, histvars>>
       /\ UNCHANGED certvars
    \/ usbDestroyDetectionThread(t)
    \/ /\ pc[t] = "exit_lockG"
       /\ Acquire(t, "G")
       /\ g_usbStateChangeEvent' = FALSE
       /\ SetPc(t, "cc_begin")
       /\ UNCHANGED <<iface_initialized, g_usbDeviceInterfaceInitialized,
                      g_usbTransferBuffer, g_usbDetectionThread,
                      g_usbDetectionThreadCreated, evvars, sessvars,
                      g_usbDetectionThreadExitFlag, envvars, urbvars, loc, histvars>>
       /\ UNCHANGED certvars
    \/ /\ pc[t] = "exit_free"
       /\ g_usbTransferBuffer' = FALSE
       /\ ReleaseAll(t, {"G"})
       /\ SetPc(t, "idle")
       /\ SetLoc(t, Loc0)
       /\ UNCHANGED <<iface_initialized, g_usbDeviceInterfaceInitialized,
                      g_usbStateChangeEvent, g_usbDetectionThread,
                      g_usbDetectionThreadCreated, evvars, sessvars,
                      g_usbDetectionThreadExitFlag, envvars, urbvars, histvars>>
       /\ UNCHANGED certvars

(***************************************************************************)
(* The system.  One application thread owns the link's life cycle and      *)
(* calls usbInitialize and usbExit; the other transfers files.             *)
(***************************************************************************)
LifecycleThreads == {"main"}
TransferThreads == {"worker"}

\* An application thread calls a public operation.
Call ==
    \/ \E t \in LifecycleThreads : usbInitialize_Call(t) \/ usbExit_Call(t)
    \/ \E t \in TransferThreads :
          \/ usbIsReady_Call(t)
          \/ usbSendFileProperties_Call(t)
          \/ usbSendFileData_Call(t)

\* A thread takes the next step of what it is running.
AppStep(t) ==
    \/ usbInitialize(t) \/ usbInitializeComms(t)
    \/ usbExit(t) \/ usbCloseComms(t) \/ usbFreeDeviceInterface(t)
    \/ usbIsReady(t) \/ usbSendFileProperties(t) \/ usbSendFileData(t)

LinkStep(t) == usbWrite(t) \/ usbRead(t) \/ usbTransferData(t) \/ usbSendCommand(t)

Host ==
    \/ HostStateChange
    \/ \E ep \in Endpoints : HostCompletesUrb(ep)

Service == \E ep \in Endpoints : CancelCompletesUrb(ep)

Next ==
    \/ Call
    \/ \E t \in AppThreads : AppStep(t)
    \/ \E t \in Threads : LinkStep(t)
    \/ \E d \in DetThreads : usbDetectionThreadFunc(d)
    \/ Host
    \/ Service

Spec == Init /\ [][Next]_vars

\* The lock a thread is about to take at its position, "none" if it is not
\* at a rwlockWriteLock call.
Requested(t) ==
    CASE pc[t] \in {"det_lockG", "op_lockG", "init_lockG", "exit_lockG"} -> "G"
      [] pc[t] \in {"det_lockI", "op_lockI"} -> "iface"
      [] pc[t] = "ep_lock" -> EpLock(loc[t].ep)
      [] pc[t] = "ic_lock" -> usbInitializeComms_LockOrder[loc[t].k + 1]
      [] pc[t] = "fd_lock" -> usbFreeDeviceInterface_LockOrder[loc[t].k + 1]
      [] OTHER -> "none"

\* The thread that must act before t can go on: the owner of the lock t is
\* about to take, or the detection thread that t joins.
WaitsFor(t) ==
    IF Requested(t) # "none" /\ lock[Requested(t)] # NoThread
    THEN lock[Requested(t)]
    ELSE IF pc[t] = "exit_join" /\ pc[g_usbDetectionThread] # "terminated"
         THEN g_usbDetectionThread
         ELSE NoThread

(***************************************************************************)
(* Fairness.  Every thread that can take its next step eventually takes    *)
(* it; strongly so, because a released lock is handed to a waiter and a    *)
(* signalled event stays signalled until a waiter consumes it.  The exit   *)
(* event wakes the detection thread even if the USB state keeps changing.  *)
(* The usb:ds service completes every cancelled URB.  Nothing is assumed   *)
(* of the host, and an application thread never has to call anything.      *)
(***************************************************************************)
usbDetectionThreadFunc_WakeOnExit(d) ==
    /\ usbDetectionThreadFunc_Wait(d)
    /\ loc'[d].idx = 2

ThreadStep(t) ==
    \/ t \in AppThreads /\ AppStep(t)
    \/ LinkStep(t)
    \/ t \in DetThreads /\ usbDetectionThreadFunc(t)

Fairness ==
    /\ \A t \in Threads : SF_vars(ThreadStep(t))
    /\ \A d \in DetThreads : SF_vars(usbDetectionThreadFunc_WakeOnExit(d))
    /\ WF_vars(Service)

FairSpec == Spec /\ Fairness

(***************************************************************************)
(* The life cycle on its own, without the precondition of usbInitialize:   *)
(* one thread calls usbInitialize at any time, initialised or not, and     *)
(* another calls usbExit at any time, also while usbInitialize runs.  No   *)
(* file is transferred.  thrd_create can start a second detection thread   *)
(* while the first exists.  The ueventCreate calls of a repeated           *)
(* usbInitialize re-create events a detection thread may be waiting on;    *)
(* which waiter a later signal wakes is then left open: either thread may  *)
(* take it, and nothing forces the other ever to run.  thrd_join returns   *)
(* once the thread that g_usbDetectionThread names at that moment has      *)
(* returned (a usbExit that reads the handle late).                        *)
(***************************************************************************)
LifeDetThreads == DetThreads \cup {"det2"}

LifeInit == UsbInitGlobals /\ UsbInitThreads(LifeDetThreads) /\ TypeIdle /\ ChainIdle

LifeNext ==
    \/ \E t \in LifecycleThreads : usbInitialize_CallAnyTime(t)
    \/ \E t \in AppThreads \ LifecycleThreads : usbExit_Call(t)
    \/ \E t \in AppThreads :
          \/ usbInitialize(t) \/ usbInitializeComms(t)
          \/ usbExit(t) \/ usbCloseComms(t) \/ usbFreeDeviceInterface(t)
    \/ \E d \in LifeDetThreads : usbDetectionThreadFunc(d) \/ LinkStep(d)
    \/ Host
    \/ Service

LifeSpec == LifeInit /\ [][LifeNext]_vars

(***************************************************************************)
(* source/cert.c: the recovery of a certificate's type, applied to every   *)
(* buffer, length and memory content of the input sets.                    *)
(***************************************************************************)
TypeInit ==
    /\ UsbInit
    /\ ChainIdle
    /\ type_pc = "call"
    /\ cert_data \in Buffers \cup {NoData}
    /\ cert_data_size \in BufferSizes
    /\ stale \in StaleWords
    /\ type = CertType_Invalid
    /\ read_end = 0

certGetCertificateType_Call ==
    /\ type_pc = "call"
    /\ type' = certGetCertificateType(cert_data, cert_data_size, stale)
    /\ read_end' = certGetCertificateType_Run(cert_data, cert_data_size, stale).read_end
    /\ type_pc' = "done"
    /\ UNCHANGED <<cert_data, cert_data_size, stale, chainvars, usbvars>>

TypeNext == certGetCertificateType_Call

TypeSpec == TypeInit /\ [][TypeNext]_vars

(***************************************************************************)
(* source/cert.c: the chain functions.  The caller's arguments are drawn   *)
(* in the initial state.  The save container is the environment: opening   *)
(* it, locating a name in it and reading from it may each fail, and a name *)
(* that is found holds one of CertFiles.                                   *)
(***************************************************************************)
PkAt(o, w) == [x \in PubKeyTypeOffsets |-> IF x = o THEN w ELSE BE32(CertPubKeyType_Rsa4096)]

\* Files of the container: two certificates of different layouts, a file
\* cut short, a file whose length fits no layout, and files outside the
\* size limits.
CertFiles ==
    {[size |-> SizeOf_Cert(SizeOf_SignatureBlockRsa4096, SizeOf_CertPublicKeyBlockRsa2048),
      sig |-> BE32(SignatureType_Rsa4096Sha256),
      pk |-> PkAt(SizeOf_SignatureBlockRsa4096 + MemberSize_issuer,
                  BE32(CertPubKeyType_Rsa2048))],
     [size |-> CERT_MIN_SIZE,
      sig |-> BE32(SignatureType_Ecsda240Sha256),
      pk |-> PkAt(SizeOf_SignatureBlockEcsda240 + MemberSize_issuer,
                  BE32(CertPubKeyType_Ecsda240))],
     [size |-> CERT_MIN_SIZE,
      sig |-> BE32(SignatureType_Rsa4096Sha256),
      pk |-> PkAt(SizeOf_SignatureBlockRsa4096 + MemberSize_issuer,
                  BE32(CertPubKeyType_Rsa2048))],
     [size |-> CERT_MIN_SIZE + 1,
      sig |-> BE32(SignatureType_Ecsda240Sha256),
      pk |-> PkAt(SizeOf_SignatureBlockEcsda240 + MemberSize_issuer,
                  BE32(CertPubKeyType_Ecsda240))],
     [size |-> CERT_MIN_SIZE - 1,
      sig |-> BE32(SignatureType_Ecsda240Sha256),
      pk |-> PkAt(SizeOf_SignatureBlockEcsda240 + MemberSize_issuer,
                  BE32(CertPubKeyType_Ecsda240))],
     [size |-> CERT_MAX_SIZE + 1,
      sig |-> BE32(SignatureType_Rsa4096Sha256),
      pk |-> PkAt(SizeOf_SignatureBlockRsa4096 + MemberSize_issuer,
                  BE32(CertPubKeyType_Rsa4096))]}

CertInit ==
    /\ UsbInit
    /\ TypeIdle
    /\ entry \in {"retrieve", "generate"}
    /\ issuer \in Issuers
    /\ out_size \in (IF entry = "generate" THEN {NoOut, OutParam} ELSE {NoOut})
    /\ cloc \in {[CLoc0 EXCEPT !.dst_null = b] :
                   b \in (IF entry = "retrieve" THEN BOOLEAN ELSE {FALSE})}
    /\ cert_pc = (IF entry = "generate" THEN "gen_check" ELSE "chain_check")
    /\ chain = ZeroChain
    /\ certs_mem = "none"
    /\ raw_chain = NoRaw
    /\ success = FALSE
    /\ open_saves = 0
    /\ looked = <<>>
    /\ logmsg = ""

\* Where certRetrieveCertificateChainBySignatureIssuer returns to.
ChainReturn == IF entry = "generate" THEN "gen_chain" ELSE "returned"

\* certRetrieveCertificateByName, lines 21-44: the parameter check and
\* save_open_savefile.
certRetrieveCertificateByName_Open ==
    /\ cert_pc = "lookup_open"
    /\ IF cloc.name = <<>>
       THEN /\ logmsg' = "Invalid parameters!"
            /\ cert_pc' = "chain_after"
            /\ UNCHANGED <<cloc, open_saves>>
       ELSE \/ /\ logmsg' = "Failed to open ES certificate system savefile!"
               /\ cert_pc' = "chain_after"
               /\ UNCHANGED <<cloc, open_saves>>
            \/ /\ cloc' = [cloc EXCEPT !.save_ctx = "open"]
               /\ open_saves' = open_saves + 1
               /\ cert_pc' = "lookup_locate"
               /\ UNCHANGED logmsg
    /\ UNCHANGED <<entry, issuer, out_size, chain, certs_mem, raw_chain, success, looked>>
    /\ UNCHANGED <<typevars, usbvars>>

\* Lines 46-56: save_get_fat_storage_from_file_entry_by_path and the size
\* limits.
certRetrieveCertificateByName_Locate ==
    /\ cert_pc = "lookup_locate"
    /\ \/ /\ logmsg' = "Failed to locate certificate in ES certificate system save!"
          /\ cert_pc' = "lookup_out"
          /\ UNCHANGED cloc
       \/ \E f \in CertFiles :
            /\ cloc' = [cloc EXCEPT !.file = f, !.cert_size = f.size]
            /\ IF f.size < CERT_MIN_SIZE \/ f.size > CERT_MAX_SIZE
               THEN /\ logmsg' = "Invalid size for certificate!"
                    /\ cert_pc' = "lookup_out"
               ELSE /\ cert_pc' = "lookup_read"
                    /\ UNCHANGED logmsg
    /\ UNCHANGED <<entry, issuer, out_size, chain, certs_mem, raw_chain, success,
                   open_saves, looked>>
    /\ UNCHANGED <<typevars, usbvars>>

\* Lines 58-65: dst->size and save_allocation_table_storage_read, which
\* returns the number of bytes it read.
certRetrieveCertificateByName_Read ==
    /\ cert_pc = "lookup_read"
    /\ \E br \in {cloc.cert_size, cloc.cert_size - 1} :
          IF br # cloc.cert_size
          THEN /\ chain' = [chain EXCEPT !.certs[cloc.i + 1].size = cloc.cert_size]
               /\ logmsg' = "Failed to read certificate!"
               /\ cert_pc' = "lookup_out"
          ELSE /\ chain' = [chain EXCEPT
                              !.certs[cloc.i + 1].size = cloc.cert_size,
                              !.certs[cloc.i + 1].data =
                                 [null |-> FALSE, from |-> cloc.name,
                                  sig |-> cloc.file.sig, pk |-> cloc.file.pk]]
               /\ cert_pc' = "lookup_type"
               /\ UNCHANGED logmsg
    /\ UNCHANGED <<entry, issuer, out_size, certs_mem, cloc, raw_chain, success,
                   open_saves, looked>>
    /\ UNCHANGED <<typevars, usbvars>>

\* Lines 67-74: dst->type.  The certificate sits in the calloc'ed array, so
\* what follows its bytes is zero.
certRetrieveCertificateByName_Type ==
    /\ cert_pc = "lookup_type"
    /\ LET dst == chain.certs[cloc.i + 1]
           t == certGetCertificateType(dst.data, dst.size, BE32(0))
       IN  /\ chain' = [chain EXCEPT !.certs[cloc.i + 1].type = t]
           /\ IF t = CertType_Invalid
              THEN /\ logmsg' = "Invalid certificate type!"
                   /\ UNCHANGED cloc
              ELSE /\ cloc' = [cloc EXCEPT !.lsuccess = TRUE]
                   /\ UNCHANGED logmsg
    /\ cert_pc' = "lookup_out"
    /\ UNCHANGED <<entry, issuer, out_size, certs_mem, raw_chain, success, open_saves,
                   looked>>
    /\ UNCHANGED <<typevars, usbvars>>

\* An out: label that leaves the save context open.
certRetrieveCertificateByName_Close_Never == UNCHANGED open_saves

\* if (save_ctx) save_close_savefile(save_ctx);
certRetrieveCertificateByName_Close ==
    open_saves' = IF cloc.save_ctx # "null" THEN open_saves - 1 ELSE open_saves

\* Lines 76-79: the out: label.
certRetrieveCertificateByName_Out ==
    /\ cert_pc = "lookup_out"
    /\ certRetrieveCertificateByName_Close
    /\ cert_pc' = "chain_after"
    /\ UNCHANGED <<entry, issuer, out_size, chain, certs_mem, cloc, raw_chain, success,
                   looked, logmsg>>
    /\ UNCHANGED <<typevars, usbvars>>

certRetrieveCertificateByName ==
    \/ certRetrieveCertificateByName_Open
    \/ certRetrieveCertificateByName_Locate
    \/ certRetrieveCertificateByName_Read
    \/ certRetrieveCertificateByName_Type
    \/ certRetrieveCertificateByName_Out

\* A release that leaves the count in place.
certFreeCertificateChain_KeepsCount ==
    IF chain.certs = NoCerts
    THEN UNCHANGED <<chain, certs_mem>>
    ELSE /\ chain' = [chain EXCEPT !.certs = NoCerts]
         /\ certs_mem' = "freed"

\* certFreeCertificateChain, lines 82-89.
certFreeCertificateChain ==
    IF chain.certs = NoCerts
    THEN UNCHANGED <<chain, certs_mem>>
    ELSE /\ chain' = [count |-> 0, certs |-> NoCerts]
         /\ certs_mem' = "freed"

\* The messages certRetrieveCertificateChainBySignatureIssuer logs before
\* it returns false.
ChainLog_InvalidParameters == "Invalid parameters!"
\* An empty tail logged like a bad parameter.
ChainLog_InvalidIssuer_AsParameters == "Invalid parameters!"
ChainLog_InvalidIssuer == "Invalid signature issuer string!"
ChainLog_Alloc == "Unable to allocate memory for the certificate chain!"
ChainLog_Retrieve == "Unable to retrieve certificate!"

\* Lines 91-101: the parameter check.
certRetrieveCertificateChainBySignatureIssuer_Check ==
    /\ cert_pc = "chain_check"
    /\ IF cloc.dst_null \/ issuer = NoString \/ Len(issuer) = 0 \/ ~HasRootPrefix(issuer)
       THEN /\ logmsg' = ChainLog_InvalidParameters
            /\ success' = FALSE
            /\ cert_pc' = ChainReturn
       ELSE /\ success' = TRUE
            /\ cert_pc' = "chain_count"
            /\ UNCHANGED logmsg
    /\ UNCHANGED <<entry, issuer, out_size, chain, certs_mem, cloc, raw_chain, open_saves,
                   looked>>
    /\ UNCHANGED <<typevars, usbvars>>

\* Lines 103-108: dst->count.
certRetrieveCertificateChainBySignatureIssuer_Count ==
    /\ cert_pc = "chain_count"
    /\ \E copy \in IssuerCopies(issuer) :
          LET n == certGetCertificateCountInSignatureIssuer(issuer, copy)
          IN  /\ chain' = [chain EXCEPT !.count = n]
              /\ IF n = 0
                 THEN /\ logmsg' = ChainLog_InvalidIssuer
                      /\ success' = FALSE
                      /\ cert_pc' = ChainReturn
                 ELSE /\ cert_pc' = "chain_alloc"
                      /\ UNCHANGED <<logmsg, success>>
    /\ UNCHANGED <<entry, issuer, out_size, certs_mem, cloc, raw_chain, open_saves,
                   looked>>
    /\ UNCHANGED <<typevars, usbvars>>

\* Lines 110-121: calloc, the copy of the issuer and the first strtok.
certRetrieveCertificateChainBySignatureIssuer_Alloc ==
    /\ cert_pc = "chain_alloc"
    /\ \/ /\ logmsg' = ChainLog_Alloc
          /\ success' = FALSE
          /\ cert_pc' = ChainReturn
          /\ UNCHANGED <<chain, certs_mem, cloc>>
       \/ \E copy \in IssuerCopies(issuer) :
            /\ chain' = [chain EXCEPT !.certs = [k \in 1..chain.count |-> ZeroCert]]
            /\ certs_mem' = "live"
            /\ cloc' = [cloc EXCEPT !.i = 0, !.pch = strtok(copy)]
            /\ cert_pc' = "chain_loop"
            /\ UNCHANGED <<logmsg, success>>
    /\ UNCHANGED <<entry, issuer, out_size, raw_chain, open_saves, looked>>
    /\ UNCHANGED <<typevars, usbvars>>

\* Lines 122-124: the loop condition and the call of
\* certRetrieveCertificateByName(&(dst->certs[i]), pch).  A pointer past the
\* array (the two copies of an undefined format may differ) makes the
\* lookup write outside it.
certRetrieveCertificateChainBySignatureIssuer_Loop ==
    /\ cert_pc = "chain_loop"
    /\ IF cloc.pch = <<>>
       THEN /\ cert_pc' = "chain_end"
            /\ UNCHANGED <<cloc, looked>>
       ELSE IF cloc.i >= chain.count
       THEN /\ cert_pc' = "corrupt"
            /\ UNCHANGED <<cloc, looked>>
       ELSE /\ cloc' = [cloc EXCEPT !.name = Head(cloc.pch), !.save_ctx = "null",
                                    !.file = NoFile, !.cert_size = 0,
                                    !.lsuccess = FALSE]
            /\ looked' = Append(looked, Head(cloc.pch))
            /\ cert_pc' = "lookup_open"
    /\ UNCHANGED <<entry, issuer, out_size, chain, certs_mem, raw_chain, success,
                   open_saves, logmsg>>
    /\ UNCHANGED <<typevars, usbvars>>

\* Lines 124-133: the result of the lookup, i++ and the next strtok.
certRetrieveCertificateChainBySignatureIssuer_After ==
    /\ cert_pc = "chain_after"
    /\ IF ~cloc.lsuccess
       THEN /\ logmsg' = ChainLog_Retrieve
            /\ success' = FALSE
            /\ cert_pc' = "chain_end"
            /\ UNCHANGED cloc
       ELSE /\ cloc' = [cloc EXCEPT !.i = cloc.i + 1, !.pch = Tail(cloc.pch)]
            /\ cert_pc' = "chain_loop"
            /\ UNCHANGED <<logmsg, success>>
    /\ UNCHANGED <<entry, issuer, out_size, chain, certs_mem, raw_chain, open_saves,
                   looked>>
    /\ UNCHANGED <<typevars, usbvars>>

\* Lines 135-137: the release of a chain that was not completed.
certRetrieveCertificateChainBySignatureIssuer_End ==
    /\ cert_pc = "chain_end"
    /\ IF ~success THEN certFreeCertificateChain ELSE UNCHANGED <<chain, certs_mem>>
    /\ cert_pc' = ChainReturn
    /\ UNCHANGED <<entry, issuer, out_size, cloc, raw_chain, success, open_saves, looked,
                   logmsg>>
    /\ UNCHANGED <<typevars, usbvars>>

certRetrieveCertificateChainBySignatureIssuer ==
    \/ certRetrieveCertificateChainBySignatureIssuer_Check
    \/ certRetrieveCertificateChainBySignatureIssuer_Count
    \/ certRetrieveCertificateChainBySignatureIssuer_Alloc
    \/ certRetrieveCertificateChainBySignatureIssuer_Loop
    \/ certRetrieveCertificateChainBySignatureIssuer_After
    \/ certRetrieveCertificateChainBySignatureIssuer_End

\* certCalculateRawCertificateChainSize, lines 279-286.
RECURSIVE SumSizes(_, _)
SumSizes(certs, n) == IF n = 0 THEN 0 ELSE SumSizes(certs, n - 1) + certs[n].size

certCalculateRawCertificateChainSize(c) ==
    IF c.count = 0 \/ c.certs = NoCerts THEN 0 ELSE SumSizes(c.certs, c.count)

\* A loop that never moves dst_u8.
certCopyCertificateChainDataToMemoryBuffer_Advance_Never(dst_u8, size) == dst_u8

\* dst_u8 += chain->certs[i].size
certCopyCertificateChainDataToMemoryBuffer_Advance(dst_u8, size) == dst_u8 + size

\* certCopyCertificateChainDataToMemoryBuffer, lines 288-298: the memcpy
\* calls of the loop from certificate i on, each with the offset it writes
\* at, its length and the bytes it takes.
RECURSIVE CopyFrom(_, _, _)
CopyFrom(c, i, dst_u8) ==
    IF i > c.count THEN <<>>
    ELSE <<[off |-> dst_u8, len |-> c.certs[i].size, src |-> c.certs[i].data]>>
           \o CopyFrom(c, i + 1,
                certCopyCertificateChainDataToMemoryBuffer_Advance(dst_u8, c.certs[i].size))

certCopyCertificateChainDataToMemoryBuffer(c) ==
    IF c.count = 0 \/ c.certs = NoCerts THEN <<>> ELSE CopyFrom(c, 1, 0)

\* certGenerateRawCertificateChainBySignatureIssuer, lines 140-146.
certGenerateRawCertificateChainBySignatureIssuer_Check ==
    /\ cert_pc = "gen_check"
    /\ IF issuer = NoString \/ Len(issuer) = 0 \/ out_size.ptr = "null"
       THEN /\ logmsg' = "Invalid parameters!"
            /\ cert_pc' = "returned"
       ELSE /\ cert_pc' = "chain_check"
            /\ UNCHANGED logmsg
    /\ UNCHANGED <<entry, issuer, out_size, chain, certs_mem, cloc, raw_chain, success,
                   open_saves, looked>>
    /\ UNCHANGED <<typevars, usbvars>>

\* Lines 152-158: the result of the chain retrieval and the chain's size.
certGenerateRawCertificateChainBySignatureIssuer_Size ==
    /\ cert_pc = "gen_chain"
    /\ IF ~success
       THEN /\ logmsg' = "Error retrieving certificate chain!"
            /\ cert_pc' = "returned"
            /\ UNCHANGED cloc
       ELSE /\ cloc' = [cloc EXCEPT
                          !.raw_chain_size = certCalculateRawCertificateChainSize(chain)]
            /\ cert_pc' = "gen_alloc"
            /\ UNCHANGED logmsg
    /\ UNCHANGED <<entry, issuer, out_size, chain, certs_mem, raw_chain, success,
                   open_saves, looked>>
    /\ UNCHANGED <<typevars, usbvars>>

\* Lines 160-173: malloc, the copy, *out_size and the release of the chain.
certGenerateRawCertificateChainBySignatureIssuer_Copy ==
    /\ cert_pc = "gen_alloc"
    /\ \/ /\ logmsg' = "Unable to allocate memory for raw certificate chain!"
          /\ UNCHANGED <<raw_chain, out_size>>
       \/ /\ raw_chain' = [ptr |-> "heap", size |-> cloc.raw_chain_size,
                           writes |-> certCopyCertificateChainDataToMemoryBuffer(chain)]
          /\ out_size' = [out_size EXCEPT !.written = TRUE,
                                          !.value = cloc.raw_chain_size]
          /\ UNCHANGED logmsg
    /\ certFreeCertificateChain
    /\ cert_pc' = "returned"
    /\ UNCHANGED <<entry, issuer, cloc, success, open_saves, looked>>
    /\ UNCHANGED <<typevars, usbvars>>

certGenerateRawCertificateChainBySignatureIssuer ==
    \/ certGenerateRawCertificateChainBySignatureIssuer_Check
    \/ certGenerateRawCertificateChainBySignatureIssuer_Size
    \/ certGenerateRawCertificateChainBySignatureIssuer_Copy

CertNext ==
    \/ certGenerateRawCertificateChainBySignatureIssuer
    \/ certRetrieveCertificateChainBySignatureIssuer
    \/ certRetrieveCertificateByName

CertSpec == CertInit /\ [][CertNext]_vars

(***************************************************************************)
(* Properties.                                                             *)
(***************************************************************************)
\* A thread is leaving operation op with the locks still held: what the
\* operation did is complete and nothing else has run since.
Returning(t, op) == pc[t] = "op_unlock" /\ loc[t].op = op

\* C1: whenever no thread holds the global lock G, a positive remaining
\* transfer size implies that the session is started and the host is marked
\* available.
C1_RemainingImpliesSession ==
    lock["G"] = NoThread =>
        (g_usbTransferRemainingSize > 0 =>
            g_usbSessionStarted /\ g_usbHostAvailable)

\* A file transfer is in progress between two calls.
C1_Witness ==
    /\ lock["G"] = NoThread
    /\ g_usbTransferRemainingSize > 0
    /\ sent > 0

\* C2: usbSendFileProperties called with the host available, the session
\* started, no transfer in progress and a name of 1 to FS_MAX_PATH - 1
\* characters returns true, with remaining = file_size, exactly if the command
\* was written, the status frame was read, its magic word is "NXDT" and its
\* status is Success; otherwise it returns false and remaining is 0.
C2_SendFileProperties ==
    \A t \in TransferThreads :
        ( /\ Returning(t, "sfp")
          /\ g_usbHostAvailable /\ g_usbSessionStarted
          /\ loc[t].rem0 = 0
          /\ 1 <= loc[t].len /\ loc[t].len < FS_MAX_PATH )
        => /\ loc[t].ret <=> ( /\ loc[t].wrote /\ loc[t].readok
                               /\ loc[t].frame.magic = MagicNXDT
                               /\ loc[t].frame.status = UsbStatusType_Success )
           /\ loc[t].ret => g_usbTransferRemainingSize = loc[t].arg
           /\ ~loc[t].ret => g_usbTransferRemainingSize = 0

\* The call succeeded and announced a file that is not empty.
C2_Witness ==
    \E t \in TransferThreads :
        /\ Returning(t, "sfp")
        /\ loc[t].ret
        /\ loc[t].arg = MaxFileSize
        /\ g_usbTransferRemainingSize = MaxFileSize

\* C3: across the usbSendFileData calls of one file the remaining size never
\* increases (only a successful usbSendFileProperties raises it, from 0), each
\* successful call with n bytes lowers it by exactly n, and it is 0 exactly
\* once the chunks written total the announced size.
C3_RemainingDecreases ==
    [][ /\ g_usbTransferRemainingSize' > g_usbTransferRemainingSize =>
            /\ g_usbTransferRemainingSize = 0
            /\ \E t \in TransferThreads :
                  /\ pc[t] = "sfp_ret"
                  /\ loc[t].status = UsbStatusType_Success
                  /\ g_usbTransferRemainingSize' = loc[t].arg
        /\ \A t \in TransferThreads :
              (pc'[t] = "op_unlock" /\ loc'[t].op = "sfd" /\ loc'[t].ret) =>
                  /\ loc'[t].arg > 0
                  /\ g_usbTransferRemainingSize' = loc'[t].rem0 - loc'[t].arg
                  /\ g_usbTransferRemainingSize' = 0 <=> sent' = fileSize'
        /\ g_usbTransferRemainingSize' > 0 =>
              g_usbTransferRemainingSize' + sent' = fileSize'
      ]_vars

\* The last chunk of a file sent in more than one chunk has been written.
C3_Witness ==
    \E t \in TransferThreads :
        /\ Returning(t, "sfd")
        /\ loc[t].ret
        /\ loc[t].arg < fileSize
        /\ sent = fileSize
        /\ g_usbTransferRemainingSize = 0

\* C4: usbSendFileData reads a status frame if and only if its write
\* succeeded and brought the remaining size to 0: none between chunks, exactly
\* one after the final chunk.
C4_StatusAfterLastChunk ==
    \A t \in TransferThreads :
        loc[t].op = "sfd" =>
            /\ loc[t].reads <= 1
            /\ loc[t].reads = 1 =>
                  loc[t].wrote /\ loc[t].arg = loc[t].rem0
            /\ (Returning(t, "sfd") /\ loc[t].wrote /\ loc[t].arg = loc[t].rem0)
                  => loc[t].reads = 1

\* A chunk that is not the last one was written and no status was read.
C4_Witness ==
    \E t \in TransferThreads :
        /\ Returning(t, "sfd")
        /\ loc[t].wrote
        /\ loc[t].reads = 0
        /\ g_usbTransferRemainingSize > 0

\* C5: every command frame written (StartSession, SendFileProperties,
\* EndSession) is followed by the read of one status frame before anything
\* else is written: a command the host has received and not yet answered
\* belongs to a thread that is about to read its status.
C5_CommandThenStatus ==
    unanswered # NoCmd =>
        \E t \in Threads : pc[t] = "cmd_wrote" /\ loc[t].xret

WaitChain(t) ==
    LET w1 == WaitsFor(t)
        w2 == IF w1 = NoThread THEN NoThread ELSE WaitsFor(w1)
        w3 == IF w2 = NoThread THEN NoThread ELSE WaitsFor(w2)
    IN  {w1, w2, w3} \ {NoThread}

\* C7: no deadlock between the public operations and the detection thread:
\* no thread waits, through locks and thrd_join, for itself; and usbExit joins
\* the detection thread before it takes G, holding no lock while it waits.
C7_NoDeadlock ==
    \A t \in Threads :
        /\ t \notin WaitChain(t)
        /\ pc[t] \in {"exit_signal", "exit_join"} => Held(t) = {}

\* usbExit waits in thrd_join while the detection thread, holding G, is in a
\* transfer of StartSession and the worker waits for G.
C7_Witness ==
    /\ \E t \in LifecycleThreads : pc[t] = "exit_join"
    /\ \E d \in DetThreads : pc[d] = "xfer_wait" /\ lock["G"] = d
    /\ \E t \in TransferThreads : pc[t] = "op_lockG"

\* The position of each lock in the order G, iface, lock_in, lock_out.
LockRank(l) == CASE l = "G" -> 1 [] l = "iface" -> 2 [] l = "in" -> 3 [] l = "out" -> 4

\* C8: locks are taken in the order G, iface, lock_in, lock_out: a thread
\* about to take a lock holds only locks that come before it.
C8_LockOrder ==
    \A t \in Threads :
        Requested(t) # "none" =>
            \A h \in Held(t) : LockRank(h) < LockRank(Requested(t))

\* A thread holding G, iface and lock_in is about to take lock_out.
C8_Witness ==
    \E t \in Threads :
        /\ Requested(t) = "out"
        /\ Held(t) = {"G", "iface", "in"}

\* C9: when a transfer issued with the session started times out, the timeout
\* event is signalled and the detection loop eventually resets session_started
\* to false and remaining to 0; the wake-up that resets them goes on to
\* StartSession if the host is available.
C9_TimeoutResetsSession ==
    /\ (\E t \in Threads :
           pc[t] = "xfer_cancel" /\ ~loc[t].thread_exit /\ g_usbSessionStarted)
          ~> (~g_usbSessionStarted /\ g_usbTransferRemainingSize = 0)
    /\ [][ \A t \in Threads :
              (pc[t] = "xfer_drain" /\ pc'[t] # "xfer_drain" /\ g_usbSessionStarted)
                 => g_usbTimeoutEvent' ]_vars
    /\ [][ \A d \in DetThreads :
              (pc[d] = "det_body" /\ pc'[d] # "det_body" /\ loc[d].idx # 2) =>
                 /\ ~g_usbSessionStarted' /\ g_usbTransferRemainingSize' = 0
                 /\ (usbIsHostAvailable /\ g_usbTransferBuffer) =>
                       /\ pc'[d] = "ep_lock"
                       /\ loc'[d].cmd = UsbCommandType_StartSession ]_vars

\* A chunk of a file times out in the middle of the transfer.
C9_Witness ==
    \E t \in TransferThreads :
        /\ pc[t] = "xfer_cancel"
        /\ ~loc[t].thread_exit
        /\ g_usbSessionStarted
        /\ g_usbTransferRemainingSize > 0

\* C10: a status frame whose magic word is not "NXDT" yields InvalidMagicWord
\* whatever its status field says: StartSession then leaves session_started
\* false, SendFileProperties returns false and leaves remaining at 0.
C10_InvalidMagicWord ==
    \A t \in Threads :
        ( /\ loc[t].op \in {"det", "sfp"}
          /\ pc[t] \in {"ss_ret", "sfp_ret", "det_after", "op_unlock"}
          /\ loc[t].readok
          /\ loc[t].frame.magic # MagicNXDT )
        => /\ loc[t].status = UsbStatusType_InvalidMagicWord
           /\ pc[t] = "det_after" => ~g_usbSessionStarted
           /\ pc[t] = "op_unlock" => ~loc[t].ret /\ g_usbTransferRemainingSize = 0

\* StartSession was answered with a wrong magic word and status Success.
C10_Witness ==
    \E d \in DetThreads :
        /\ pc[d] = "det_after"
        /\ loc[d].readok
        /\ loc[d].frame.magic # MagicNXDT
        /\ loc[d].frame.status = UsbStatusType_Success

\* C11: when the host answers SendFileProperties, or the last chunk of a
\* file, with a status frame of valid magic word whose code is not Success,
\* the call returns false, host_available and session_started stay true as
\* they were when the call was accepted, and the call has not signalled the
\* timeout event.
C11_HostErrorKeepsSession ==
    \A t \in TransferThreads :
        ( /\ Returning(t, "sfp") \/ Returning(t, "sfd")
          /\ loc[t].readok
          /\ loc[t].frame.magic = MagicNXDT
          /\ loc[t].frame.status # UsbStatusType_Success )
        => /\ ~loc[t].ret
           /\ g_usbHostAvailable /\ g_usbSessionStarted
           /\ ~loc[t].signalled

\* The last chunk of a file was answered with a host I/O error.
C11_Witness ==
    \E t \in TransferThreads :
        /\ Returning(t, "sfd")
        /\ loc[t].readok
        /\ loc[t].frame.magic = MagicNXDT
        /\ loc[t].frame.status = UsbStatusType_HostIoError
        /\ g_usbTransferRemainingSize = 0

\* C12: when the detection thread leaves its loop it writes an EndSession
\* header if and only if host_available and session_started both hold; once it
\* has terminated host_available and session_started are false and remaining
\* is 0, so that usbIsReady returns false after usbExit.
C12_EndSessionAndCleanup ==
    /\ [][ \A d \in DetThreads :
              (pc[d] = "det_exit" /\ pc'[d] # "det_exit") =>
                 ( (pc'[d] = "ep_lock" /\ loc'[d].ep = "in"
                       /\ loc'[d].cmd = UsbCommandType_EndSession)
                   <=> (g_usbHostAvailable /\ g_usbSessionStarted) ) ]_vars
    /\ [] ( \A d \in DetThreads :
              pc[d] \in {"terminated", "none"} =>
                 /\ ~g_usbHostAvailable /\ ~g_usbSessionStarted
                 /\ g_usbTransferRemainingSize = 0
                 /\ \A t \in TransferThreads :
                       Returning(t, "isready") => ~loc[t].ret )

\* The thread has terminated after the host took its EndSession header, and
\* usbIsReady is asked.
C12_Witness ==
    /\ \E d \in DetThreads : pc[d] = "terminated"
    /\ unanswered = UsbCommandType_EndSession
    /\ \E t \in TransferThreads : Returning(t, "isready")

\* C13: for every buffer of length S, certGetCertificateType returns a type
\* other than CertType_Invalid exactly when the big-endian word at offset 0
\* is one of the six signature types, the big-endian word that follows the
\* signature block and the issuer is one of the three public key types, and
\* the two blocks plus the fixed fields end exactly at S.
C13_TypeIffLayout ==
    type_pc = "done" =>
       ( type # CertType_Invalid
           <=> /\ ~cert_data.null
               /\ \E s \in SignatureTypes, p \in CertPubKeyTypes :
                     /\ cert_data.sig = BE32(s)
                     /\ cert_data.pk[SignatureBlockSize(s) + MemberSize_issuer] = BE32(p)
                     /\ SizeOf_Cert(SignatureBlockSize(s), PublicKeyBlockSize(p))
                          = cert_data_size )

\* A certificate with an RSA-4096 signature and an RSA-2048 key got its type.
C13_Witness ==
    /\ type_pc = "done"
    /\ type = "CertType_SigRsa4096_PubKeyRsa2048"
    /\ cert_data_size
         = SizeOf_Cert(SizeOf_SignatureBlockRsa4096, SizeOf_CertPublicKeyBlockRsa2048)

\* C14: for a buffer whose length S is within [CERT_MIN_SIZE, CERT_MAX_SIZE],
\* every byte certGetCertificateType reads lies below S; in particular the
\* read of the public key type ends at or before S.
C14_ReadsBelowSize ==
    ( /\ type_pc = "done"
      /\ ~cert_data.null
      /\ cert_data_size >= CERT_MIN_SIZE
      /\ cert_data_size <= CERT_MAX_SIZE )
       => read_end <= cert_data_size

\* certRetrieveCertificateChainBySignatureIssuer has returned to its caller.
ChainReturned == cert_pc = ChainReturn

\* The texts between the separators of s, empty ones included.
SplitAtSeparators(s) ==
    LET seps == {i \in 1..Len(s) : s[i] = "-"}
        Bound(k) == IF k = 0 THEN 0
                    ELSE IF k > Cardinality(seps) THEN Len(s) + 1
                    ELSE Nth(seps, k)
    IN  [k \in 1..(Cardinality(seps) + 1) |-> SubSeq(s, Bound(k - 1) + 1, Bound(k) - 1)]

\* The t1, ..., tk of an issuer "Root-t1-...-tk".
IssuerNames == SplitAtSeparators(SubSeq(issuer, Len(RootPrefix) + 1, Len(issuer)))

\* C15: for an issuer "Root-t1-...-tk" (every ti a name) whose lookups all
\* succeed, the chain retrieval returns a chain of k >= 1 certificates, the
\* i-th one being what the lookup of ti gave, in issuer order.
C15_ChainFollowsIssuer ==
    ( /\ ChainReturned
      /\ success
      /\ \A k \in 1..Len(IssuerNames) : IssuerNames[k] # <<>> )
       => /\ chain.count = Len(IssuerNames)
          /\ Len(chain.certs) = Len(IssuerNames)
          /\ \A k \in 1..Len(IssuerNames) :
                /\ chain.certs[k].data.from = IssuerNames[k]
                /\ chain.certs[k].type # CertType_Invalid

\* The last lookup of the chain retrieval failed.
LookupFailed == looked # <<>> /\ ~cloc.lsuccess

\* C16: when the lookup of a name fails during the chain retrieval, the
\* call returns failure, no later name is looked up (the names looked up are
\* the ones that succeeded and the one that failed), and the chain is
\* released: the array is freed, certs is NULL and count is 0.
C16_FailedLookupReleasesChain ==
    /\ [] ( (ChainReturned /\ LookupFailed) =>
              /\ ~success
              /\ Len(looked) = cloc.i + 1
              /\ looked[Len(looked)] = Head(cloc.pch)
              /\ chain = [count |-> 0, certs |-> NoCerts]
              /\ certs_mem = "freed" )
    /\ [][ (LookupFailed /\ cert_pc \in {"chain_end", "returned", "gen_chain"})
              => looked' = looked ]_vars

\* The second of three names was not found: one lookup succeeded before it
\* and the third name is still waiting.
C16_Witness ==
    /\ ChainReturned
    /\ LookupFailed
    /\ cloc.i = 1
    /\ Len(cloc.pch) = 2

\* The three failures of the chain retrieval the issuer or a lookup causes.
BadPrefix == issuer # NoString /\ Len(issuer) > 0 /\ ~HasRootPrefix(issuer)
EmptyTail ==
    /\ ~cloc.dst_null
    /\ HasRootPrefix(issuer)
    /\ IssuerCopy(issuer).defined
    /\ strtok(IssuerCopy(issuer).text) = <<>>

\* What certRetrieveCertificateChainBySignatureIssuer returns for an issuer
\* without the "Root-" prefix.
ReturnedForBadPrefix == FALSE

ByteAt(writes, o) ==
    LET cover == {k \in 1..Len(writes) :
                     writes[k].off <= o /\ o < writes[k].off + writes[k].len}
        last == Nth(cover, Cardinality(cover))
    IN  IF cover = {} THEN [src |-> NoData, at |-> 0 - 1]
        ELSE [src |-> writes[last].src, at |-> o - writes[last].off]

\* C18: when certGenerateRawCertificateChainBySignatureIssuer returns a
\* buffer, the length it reports and the size it allocated are the sum of
\* the sizes of the chain's certificates, and the buffer's bytes are the
\* certificates' data one after the other in chain order.
C18_RawChainIsConcatenation ==
    [][ (cert_pc = "gen_alloc" /\ cert_pc' = "returned" /\ raw_chain'.ptr # "null") =>
          /\ out_size'.written
          /\ out_size'.value = SumSizes(chain.certs, chain.count)
          /\ raw_chain'.size = SumSizes(chain.certs, chain.count)
          /\ \A k \in 1..chain.count :
                \A o \in 0..(chain.certs[k].size - 1) :
                   ByteAt(raw_chain'.writes, SumSizes(chain.certs, k - 1) + o)
                     = [src |-> chain.certs[k].data, at |-> o] ]_vars

\* A buffer was returned for a chain of certificates of different sizes.
C18_Witness ==
    /\ cert_pc = "returned"
    /\ raw_chain.ptr # "null"
    /\ Len(raw_chain.writes) = 3
    /\ raw_chain.writes[1].len # raw_chain.writes[2].len
    /\ out_size.written

\* C19: a save context that certRetrieveCertificateByName opened is closed
\* exactly once before the lookup returns, whether the lookup succeeded or
\* failed after the open; so at most one context is open at any time, only
\* inside a lookup, and none is open once the chain retrieval has returned.
C19_OpenThenClose ==
    /\ [] ( /\ open_saves \in {0, 1}
            /\ open_saves = 1 =>
                 /\ cert_pc \in {"lookup_locate", "lookup_read", "lookup_type",
                                 "lookup_out"}
                 /\ cloc.save_ctx # "null" )
    /\ [][ /\ open_saves' > open_saves => (cert_pc = "lookup_open" /\ open_saves = 0)
           /\ open_saves' < open_saves => (cert_pc = "lookup_out" /\ open_saves' = 0)
           /\ (cert_pc = "lookup_out" /\ cloc.save_ctx # "null")
                => open_saves' = open_saves - 1 ]_vars

\* The second lookup of a chain failed after its open and has returned.
C19_Witness ==
    /\ cert_pc = "chain_after"
    /\ cloc.save_ctx # "null"
    /\ ~cloc.lsuccess
    /\ Len(looked) = 2
    /\ open_saves = 0

\* C20: usbInitialize returns true only if every setup step succeeded (the
\* transfer buffer, the usb:ds session and the interface, the state-change
\* event, the detection thread); if it returns false no detection thread is
\* running; and a failure inside usbInitializeComms tears the interface down,
\* leaving both initialised flags false.
C20_InitializeFailure ==
    /\ [] ( \A t \in LifecycleThreads :
              pc[t] = "init_end" =>
                 /\ loc[t].ret <=>
                       ( /\ g_usbTransferBuffer
                         /\ g_usbDeviceInterfaceInitialized /\ iface_initialized
                         /\ usbds = "enabled"
                         /\ g_usbStateChangeEvent
                         /\ g_usbDetectionThreadCreated
                         /\ \E d \in DetThreads :
                               g_usbDetectionThread = d /\ pc[d] # "none" )
                 /\ ~loc[t].ret =>
                       /\ ~g_usbDetectionThreadCreated
                       /\ \A d \in DetThreads : pc[d] = "none" )
    /\ [][ \A t \in LifecycleThreads :
              ( /\ pc[t] \in {"cc_begin", "fd_lock", "fd_body", "fd_unlock"}
                /\ pc'[t] = "init_end" ) =>
                 /\ ~loc'[t].ret
                 /\ ~g_usbDeviceInterfaceInitialized' /\ ~iface_initialized'
                 /\ usbds' = "off" ]_vars

\* usbInitialize is about to return false after the interface setup failed
\* with the interface's flag already set, and was torn down.
C20_Witness ==
    \E t \in LifecycleThreads :
        /\ pc[t] = "init_end"
        /\ ~loc[t].ret
        /\ loc[t].k = Len(usbFreeDeviceInterface_LockOrder)
        /\ g_usbTransferBuffer
        /\ ~iface_initialized

\* The precondition of usbSendFileProperties fails for a name of len characters.
SendFilePropertiesRejected(len) ==
    \/ ~(g_usbHostAvailable /\ g_usbSessionStarted)
    \/ g_usbTransferRemainingSize > 0
    \/ len = 0 \/ len >= FS_MAX_PATH

\* C21: a usbSendFileProperties call made when the link is not ready, or while
\* remaining > 0, or with an empty name or one of FS_MAX_PATH characters or
\* more, returns false without writing anything to the endpoint, and leaves
\* host_available, session_started and remaining as they were.
C21_RejectedSendFileProperties ==
    /\ [][ \A t \in TransferThreads :
              ( /\ pc[t] = "op_body" /\ loc[t].op = "sfp" /\ pc'[t] # "op_body"
                /\ SendFilePropertiesRejected(loc'[t].len) )
              => /\ pc'[t] = "op_unlock"
                 /\ ~loc'[t].ret /\ ~loc'[t].wrote /\ loc'[t].cmd = NoCmd
                 /\ UNCHANGED <<sessvars, urb, unanswered>> ]_vars
    /\ [][ \A t \in TransferThreads :
              (Returning(t, "sfp") /\ loc[t].cmd = NoCmd /\ pc'[t] # "op_unlock")
              => /\ pc'[t] = "idle"
                 /\ UNCHANGED <<sessvars, urb, unanswered>> ]_vars
    /\ [] ( \A t \in TransferThreads :
              (Returning(t, "sfp") /\ loc[t].cmd = NoCmd)
              => /\ ~loc[t].ret /\ ~loc[t].wrote
                 /\ g_usbTransferRemainingSize = loc[t].rem0
                 /\ urb["in"] = "none" )

\* A new file is announced while another is in progress, and turned down.
C21_Witness ==
    \E t \in TransferThreads :
        /\ Returning(t, "sfp")
        /\ loc[t].cmd = NoCmd
        /\ g_usbHostAvailable /\ g_usbSessionStarted
        /\ g_usbTransferRemainingSize > 0
        /\ 1 <= loc[t].len /\ loc[t].len < FS_MAX_PATH

\* C22: when the wait of a posted transfer times out, fails or is aborted by
\* the exit event, usbTransferData cancels the URB, then waits for the
\* completion event and clears it before it returns false, so that an
\* endpoint on which no transfer is running has no URB and no pending
\* completion signal; on that path the timeout event is signalled if and only
\* if session_started is true at that moment.
C22_CancelDrainSignal ==
    /\ [][ \A t \in Threads :
              (pc[t] = "xfer_cancel" /\ pc'[t] # "xfer_cancel")
              => /\ pc'[t] = "xfer_drain"
                 /\ urb'[loc[t].ep] # "posted" ]_vars
    /\ [][ \A t \in Threads :
              (pc[t] = "xfer_drain" /\ pc'[t] # "xfer_drain")
              => /\ CompletionEvent[loc[t].ep] /\ ~CompletionEvent'[loc[t].ep]
                 /\ urb'[loc[t].ep] = "none"
                 /\ pc'[t] = loc[t].ra /\ ~loc'[t].xret
                 /\ g_usbSessionStarted => g_usbTimeoutEvent'
                 /\ ~g_usbSessionStarted => UNCHANGED g_usbTimeoutEvent ]_vars
    /\ [] ( \A ep \in Endpoints :
              (lock[EpLock(ep)] = NoThread \/ \E t \in Threads : pc[t] = "xfer_begin" /\ loc[t].ep = ep)
              => urb[ep] = "none" /\ ~CompletionEvent[ep] )

\* A chunk timed out, the URB was cancelled and drained, and the next
\* transfer on the same endpoint is about to post its URB.
C22_Witness ==
    \E t \in TransferThreads :
        /\ pc[t] = "xfer_begin" /\ loc[t].ep = "in"
        /\ loc[t].op = "sfd"
        /\ g_usbTimeoutEvent
        /\ ~CompletionEvent["in"]

\* C23: the wait of a transfer posted while session_started is false ends
\* only when the completion event or the exit event fires: it never times
\* out, and a signalled state-change or timeout event neither ends it nor is
\* consumed by it; the wait of a transfer posted while session_started is
\* true is the bounded one, which ends by completion or by timeout and does
\* not listen to the exit event.
C23_WaitKinds ==
    /\ [][ \A t \in Threads :
              (pc[t] = "xfer_wait" /\ pc'[t] # "xfer_wait" /\ ~g_usbSessionStarted)
              => /\ \/ /\ CompletionEvent[loc[t].ep]
                       /\ pc'[t] = "xfer_report" /\ ~loc'[t].thread_exit
                    \/ /\ g_usbDetectionThreadExitEvent
                       /\ pc'[t] = "xfer_cancel" /\ loc'[t].thread_exit
                 /\ UNCHANGED <<stateChangeSignal, g_usbTimeoutEvent>> ]_vars
    /\ [][ \A t \in Threads :
              (pc[t] = "xfer_wait" /\ pc'[t] # "xfer_wait" /\ g_usbSessionStarted)
              => /\ \/ CompletionEvent[loc[t].ep] /\ pc'[t] = "xfer_report"
                    \/ ~CompletionEvent[loc[t].ep] /\ pc'[t] = "xfer_cancel"
                 /\ ~loc'[t].thread_exit
                 /\ UNCHANGED <<g_usbDetectionThreadExitEvent,
                                g_usbDetectionThreadExitFlag>> ]_vars
    /\ [] ( \A t \in Threads :
              pc[t] = "xfer_wait" =>
                 ( (ENABLED usbTransferData_Wait(t))
                   <=> \/ g_usbSessionStarted
                       \/ CompletionEvent[loc[t].ep]
                       \/ g_usbDetectionThreadExitEvent ) )

\* The detection thread is blocked in the wait of its StartSession command
\* while the state-change event and the timeout event are both signalled.
C23_Witness ==
    \E d \in DetThreads :
        /\ pc[d] = "xfer_wait"
        /\ ~g_usbSessionStarted
        /\ stateChangeSignal /\ g_usbTimeoutEvent
        /\ ~CompletionEvent[loc[d].ep] /\ ~g_usbDetectionThreadExitEvent
        /\ ~ENABLED usbTransferData_Wait(d)

\* The detection thread is inside usbStartSession, up to its return.
InStartSession(d) ==
    /\ loc[d].op = "det" /\ loc[d].cmd = UsbCommandType_StartSession
    /\ pc[d] \in {"ep_lock", "xfer_begin", "xfer_wait", "xfer_cancel", "xfer_drain",
                  "xfer_report", "cmd_wrote", "cmd_read", "ss_ret"}

C25_SessionStartsInDetectionLoop ==
    /\ [][ (~g_usbSessionStarted /\ g_usbSessionStarted')
              => \E d \in DetThreads :
                    /\ pc[d] = "ss_ret" /\ pc'[d] = "det_after"
                    /\ g_usbHostAvailable /\ g_usbHostAvailable'
                    /\ loc[d].cmd = UsbCommandType_StartSession
                    /\ loc[d].wrote /\ loc[d].readok
                    /\ loc[d].frame.magic = MagicNXDT
                    /\ loc[d].frame.status = UsbStatusType_Success ]_vars
    /\ [][ ( \/ g_usbSessionStarted' # g_usbSessionStarted
             \/ g_usbHostAvailable' # g_usbHostAvailable )
              => /\ \E d \in DetThreads : pc'[d] # pc[d]
                 /\ \A t \in AppThreads : pc'[t] = pc[t] /\ loc'[t] = loc[t] ]_vars

\* The host has just accepted StartSession.
C25_Witness ==
    \E d \in DetThreads :
        /\ pc[d] = "det_after"
        /\ g_usbSessionStarted /\ g_usbHostAvailable
        /\ loc[d].cmd = UsbCommandType_StartSession
        /\ loc[d].status = UsbStatusType_Success
        /\ \E t \in TransferThreads : pc[t] = "op_lockG"

\* Thread t has called usbIsReady and not yet taken the first lock.
IsReadyCalled(t) == pc[t] = "op_lockG" /\ loc[t].op = "isready"

\* The detection thread holds both locks and waits, inside usbStartSession,
\* for a host that has not answered and an exit event that has not fired.
NegotiationBlocked ==
    \E d \in DetThreads :
        /\ InStartSession(d) /\ pc[d] = "xfer_wait"
        /\ {"G", "iface"} \subseteq Held(d)
        /\ ~CompletionEvent[loc[d].ep] /\ ~g_usbDetectionThreadExitEvent

\* C26: every call of usbIsReady returns, unless the detection thread stays
\* blocked for ever in the wait of usbStartSession with the two locks held:
\* usbIsReady takes the same two locks, so it waits as long as the
\* negotiation does.
C26_IsReadyReturnsUnlessNegotiating ==
    \A t \in TransferThreads :
        [] (IsReadyCalled(t) => (<>Returning(t, "isready") \/ <>[]NegotiationBlocked))

\* usbIsReady was called while the detection thread is blocked negotiating.
C26_Witness ==
    /\ \E t \in TransferThreads : IsReadyCalled(t)
    /\ NegotiationBlocked

\* C26 as stated: every call of usbIsReady returns, also while the detection
\* thread is blocked negotiating StartSession.
C26_IsReadyAlwaysReturns ==
    \A t \in TransferThreads : IsReadyCalled(t) ~> Returning(t, "isready")

\* C27: once a transfer of usbSendFileProperties or usbSendFileData has timed
\* out, and until the detection loop has reset the session and negotiated a
\* new one, no usbSendFileProperties call is accepted and usbIsReady does not
\* return true.
C27_TimeoutInvalidatesSession ==
    [][ \A t \in TransferThreads :
           (timedOut /\ pc[t] = "op_body" /\ pc'[t] # "op_body")
           => /\ loc[t].op = "sfp" => (pc'[t] = "op_unlock" /\ ~loc'[t].ret)
              /\ loc[t].op = "isready" => ~loc'[t].ret ]_vars

\* C28: every buffer posted to an endpoint is aligned and has a length n with
\* 0 < n <= USB_TRANSFER_BUFFER_SIZE; usbSendFileData passes the caller's
\* data on only if it is aligned and the shared transfer buffer otherwise,
\* so that no transfer is requested with an unaligned buffer or n = 0; such
\* a request would fail without posting a URB.
C28_PostedBuffersAligned ==
    /\ [][ \A t \in Threads :
              (pc[t] = "xfer_begin" /\ pc'[t] = "xfer_wait")
              => /\ urb[loc[t].ep] = "none" /\ urb'[loc[t].ep] = "posted"
                 /\ IS_ALIGNED(loc[t].buf)
                 /\ 0 < loc[t].size /\ loc[t].size <= USB_TRANSFER_BUFFER_SIZE ]_vars
    /\ [][ \A t \in Threads :
              ( /\ pc[t] = "xfer_begin" /\ pc'[t] # "xfer_begin"
                /\ ~IS_ALIGNED(loc[t].buf) \/ loc[t].size = 0 )
              => /\ UNCHANGED urb
                 /\ pc'[t] = loc[t].ra /\ ~loc'[t].xret ]_vars
    /\ [] ( \A t \in Threads :
              pc[t] \in {"ep_lock", "xfer_begin", "xfer_wait"} =>
                 /\ IS_ALIGNED(loc[t].buf)
                 /\ 0 < loc[t].size /\ loc[t].size <= USB_TRANSFER_BUFFER_SIZE
                 /\ (loc[t].op = "sfd" /\ loc[t].ep = "in") => loc[t].size = loc[t].arg
                 /\ (loc[t].op # "sfd" \/ loc[t].ep = "out")
                       => loc[t].buf = "g_usbTransferBuffer" )

\* A chunk of the largest size, passed from unaligned memory, is posted from
\* the shared transfer buffer.
C28_Witness ==
    \E t \in TransferThreads :
        /\ loc[t].op = "sfd" /\ pc[t] = "xfer_wait" /\ loc[t].ep = "in"
        /\ urb["in"] = "posted"
        /\ loc[t].buf = "g_usbTransferBuffer"
        /\ loc[t].size = USB_TRANSFER_BUFFER_SIZE

\* The words certGetCertificateType reads from the buffer of the call.
SigTypeRead == Bswap32(LoadU32(cert_data.sig))
PubKeyTypeRead ==
    Bswap32(LoadU32(cert_data.pk[SignatureBlockSize(SigTypeRead) + MemberSize_issuer]))

\* The nine tags: a signature algorithm, with either hash, and a key type.
CertTypeTags ==
    { [type |-> "CertType_SigRsa4096_PubKeyRsa4096",
       sig |-> {SignatureType_Rsa4096Sha1, SignatureType_Rsa4096Sha256},
       pk |-> CertPubKeyType_Rsa4096],
      [type |-> "CertType_SigRsa4096_PubKeyRsa2048",
       sig |-> {SignatureType_Rsa4096Sha1, SignatureType_Rsa4096Sha256},
       pk |-> CertPubKeyType_Rsa2048],
      [type |-> "CertType_SigRsa4096_PubKeyEcsda240",
       sig |-> {SignatureType_Rsa4096Sha1, SignatureType_Rsa4096Sha256},
       pk |-> CertPubKeyType_Ecsda240],
      [type |-> "CertType_SigRsa2048_PubKeyRsa4096",
       sig |-> {SignatureType_Rsa2048Sha1, SignatureType_Rsa2048Sha256},
       pk |-> CertPubKeyType_Rsa4096],
      [type |-> "CertType_SigRsa2048_PubKeyRsa2048",
       sig |-> {SignatureType_Rsa2048Sha1, SignatureType_Rsa2048Sha256},
       pk |-> CertPubKeyType_Rsa2048],
      [type |-> "CertType_SigRsa2048_PubKeyEcsda240",
       sig |-> {SignatureType_Rsa2048Sha1, SignatureType_Rsa2048Sha256},
       pk |-> CertPubKeyType_Ecsda240],
      [type |-> "CertType_SigEcsda240_PubKeyRsa4096",
       sig |-> {SignatureType_Ecsda240Sha1, SignatureType_Ecsda240Sha256},
       pk |-> CertPubKeyType_Rsa4096],
      [type |-> "CertType_SigEcsda240_PubKeyRsa2048",
       sig |-> {SignatureType_Ecsda240Sha1, SignatureType_Ecsda240Sha256},
       pk |-> CertPubKeyType_Rsa2048],
      [type |-> "CertType_SigEcsda240_PubKeyEcsda240",
       sig |-> {SignatureType_Ecsda240Sha1, SignatureType_Ecsda240Sha256},
       pk |-> CertPubKeyType_Ecsda240] }

\* The well-formed certificate with signature type s and public key type p,
\* and the types certGetCertificateType gives to the eighteen of them.
WellFormedCert(s, p) ==
    [null |-> FALSE, from |-> <<>>, sig |-> BE32(s),
     pk |-> PkAt(SignatureBlockSize(s) + MemberSize_issuer, BE32(p))]
WellFormedTypes ==
    { certGetCertificateType(WellFormedCert(s, p),
                             SizeOf_Cert(SignatureBlockSize(s), PublicKeyBlockSize(p)),
                             stale) : s \in SignatureTypes, p \in CertPubKeyTypes }

\* C29: for a buffer that parses successfully the returned type is the tag
\* of the pair (signature algorithm, public key type): the SHA-1 and SHA-256
\* types of one algorithm share a tag, two accepted buffers get the same type
\* exactly when their algorithms and key types agree, and nine types other
\* than CertType_Invalid can be returned.
C29_TypeTagsAlgorithmPair ==
    (type_pc = "done" /\ type # CertType_Invalid) =>
        /\ \E e \in CertTypeTags :
              /\ e.type = type /\ SigTypeRead \in e.sig /\ PubKeyTypeRead = e.pk
              /\ \A f \in CertTypeTags :
                    (SigTypeRead \in f.sig /\ PubKeyTypeRead = f.pk) => f = e
        /\ type \in WellFormedTypes
        /\ Cardinality(WellFormedTypes) = Cardinality(CertTypeTags)
        /\ Cardinality(WellFormedTypes) = 9

\* A certificate signed with RSA-2048 and SHA-1 for an ECDSA key got its type.
C29_Witness ==
    /\ type_pc = "done"
    /\ type = "CertType_SigRsa2048_PubKeyEcsda240"
    /\ SigTypeRead = SignatureType_Rsa2048Sha1
    /\ PubKeyTypeRead = CertPubKeyType_Ecsda240

\* C29 as stated: the type of an accepted buffer is the tag of the pair
\* (sig_type, pub_key_type), so the same buffer with another signature type
\* does not get the same type, and six types other than CertType_Invalid can
\* be returned.
C29_TypeTagsFieldPair ==
    (type_pc = "done" /\ type # CertType_Invalid) =>
        /\ \A s \in SignatureTypes \ {SigTypeRead} :
              certGetCertificateType([cert_data EXCEPT !.sig = BE32(s)],
                                     cert_data_size, stale) # type
        /\ Cardinality(WellFormedTypes) = 6

\* C30: whenever usbSendFileData returns false, remaining is 0 when it
\* returns and after it has returned, whatever made it fail: a call rejected
\* at the parameter check, a chunk that could not be written, a status frame
\* that could not be read, a bad magic word or a status other than Success.
C30_FailedSendFileDataClearsRemaining ==
    /\ [] ( \A t \in TransferThreads :
              Returning(t, "sfd") =>
                 /\ ~loc[t].ret => g_usbTransferRemainingSize = 0
                 /\ ~loc[t].ret <=>
                       \/ ~loc[t].wrote
                       \/ /\ loc[t].reads > 0
                          /\ \/ ~loc[t].readok
                             \/ loc[t].frame.magic # MagicNXDT
                             \/ loc[t].frame.status # UsbStatusType_Success )
    /\ [][ \A t \in TransferThreads :
              (Returning(t, "sfd") /\ ~loc[t].ret /\ pc'[t] # "op_unlock")
              => pc'[t] = "idle" /\ g_usbTransferRemainingSize' = 0 ]_vars

\* A call rejected at the parameter check in the middle of a file: nothing
\* was written, and the file in progress is abandoned.
C30_Witness ==
    \E t \in TransferThreads :
        /\ Returning(t, "sfd")
        /\ ~loc[t].ret /\ ~loc[t].wrote /\ loc[t].size = 0 /\ loc[t].arg = 0
        /\ loc[t].rem0 > 0
        /\ g_usbHostAvailable /\ g_usbSessionStarted
        /\ g_usbTransferRemainingSize = 0


(***************************************************************************)
(* C31: only the detection thread waits on, and so consumes, the           *)
(* auto-clearing exit event.  Every transfer issued by an application      *)
(* thread (from usbSendFileProperties or usbSendFileData) runs with        *)
(* g_usbSessionStarted true from its first step to its return, so it takes *)
(* the timed wait; and every step that takes the exit event from           *)
(* signalled to clear is a step of the detection thread, at one of its two *)
(* waits, while no application thread moves.                               *)
(***************************************************************************)
InTransfer(t) == loc[t].ep # "none"

C31_OnlyDetectionThreadTakesExitEvent ==
    /\ [] (\A t \in AppThreads : InTransfer(t) => g_usbSessionStarted)
    /\ [][ (g_usbDetectionThreadExitEvent /\ ~g_usbDetectionThreadExitEvent')
           => /\ \E d \in DetThreads : /\ pc[d] \in {"det_wait", "xfer_wait"}
                                       /\ pc'[d] # pc[d]
              /\ \A t \in AppThreads : pc'[t] = pc[t] ]_vars

\* An application thread waits for its transfer while the exit event is
\* signalled and not yet taken.
C31_Witness ==
    \E t \in AppThreads :
        /\ pc[t] = "xfer_wait"
        /\ loc[t].op \in {"sfp", "sfd"}
        /\ g_usbDetectionThreadExitEvent


(***************************************************************************)
(* C32: when a StartSession attempt fails for a reason other than the exit *)
(* event (a status other than Success, a bad magic word, a failed          *)
(* transfer), usbStartSession returns false with g_usbHostAvailable true   *)
(* and g_usbSessionStarted false, the iteration ends by releasing both     *)
(* locks and going back to the wait with these values, no step of the      *)
(* attempt signals the timeout event, and StartSession is issued again     *)
(* only from an iteration that the state-change event or the timeout event *)
(* woke up: the loop leaves its wait only by taking one of its three       *)
(* events.                                                                 *)
(***************************************************************************)
StartSessionFailed(d) ==
    /\ loc[d].op = "det" /\ loc[d].cmd = UsbCommandType_StartSession
    /\ loc[d].status # UsbStatusType_Success
    /\ ~g_usbDetectionThreadExitFlag

C32_FailedStartSessionWaits ==
    /\ [][ \A d \in DetThreads :
              (pc[d] = "ss_ret" /\ pc'[d] # "ss_ret" /\ StartSessionFailed(d))
              => /\ pc'[d] = "det_after"
                 /\ g_usbHostAvailable' /\ ~g_usbSessionStarted'
                 /\ ~g_usbDetectionThreadExitFlag' ]_vars
    /\ [][ \A d \in DetThreads :
              (pc[d] = "det_after" /\ pc'[d] # "det_after"
                 /\ ~g_usbSessionStarted /\ ~g_usbDetectionThreadExitFlag)
              => /\ pc'[d] = "det_wait"
                 /\ Held(d)' = {}
                 /\ g_usbHostAvailable' /\ ~g_usbSessionStarted'
                 /\ UNCHANGED g_usbTimeoutEvent ]_vars
    /\ [][ \A d \in DetThreads :
              InStartSession(d) => ~(~g_usbTimeoutEvent /\ g_usbTimeoutEvent') ]_vars
    /\ [][ \A d \in DetThreads :
              (pc[d] # "ep_lock" /\ pc'[d] = "ep_lock" /\ loc'[d].ep = "in"
                 /\ loc'[d].cmd = UsbCommandType_StartSession)
              => (pc[d] = "det_body" /\ loc[d].idx \in {0, 1}) ]_vars
    /\ [][ \A d \in DetThreads :
              (pc[d] = "det_wait" /\ pc'[d] # "det_wait")
              => /\ pc'[d] = "det_lockG"
                 /\ \/ stateChangeSignal /\ ~stateChangeSignal' /\ loc'[d].idx = 0
                    \/ g_usbTimeoutEvent /\ ~g_usbTimeoutEvent' /\ loc'[d].idx = 1
                    \/ /\ g_usbDetectionThreadExitEvent
                       /\ ~g_usbDetectionThreadExitEvent' /\ loc'[d].idx = 2 ]_vars

\* The host answered StartSession with a frame whose magic word is wrong;
\* the iteration is about to end.
C32_Witness ==
    \E d \in DetThreads :
        /\ pc[d] = "det_after"
        /\ StartSessionFailed(d)
        /\ loc[d].status = UsbStatusType_InvalidMagicWord
        /\ g_usbHostAvailable /\ ~g_usbSessionStarted


(***************************************************************************)
(* C34: a usbSendFileProperties call for a file of size 0 that the host    *)
(* acknowledges with Success returns true and leaves the remaining size at *)
(* 0.  With the remaining size 0 every usbSendFileData call is rejected at *)
(* its check, without a transfer; usbSendFileData issues the read of the   *)
(* trailing status frame only for a file announced with a size above 0,    *)
(* once all of it was written; and a usbSendFileProperties call with a     *)
(* valid name made while the link is up and the remaining size is 0 is     *)
(* accepted: its command is written.                                       *)
(***************************************************************************)
LinkUp ==
    /\ g_usbTransferBuffer /\ g_usbDeviceInterfaceInitialized /\ iface_initialized
    /\ g_usbHostAvailable /\ g_usbSessionStarted

C34_ZeroLengthFile ==
    [][ \A t \in TransferThreads :
          /\ (pc[t] = "sfp_ret" /\ pc'[t] # "sfp_ret"
                /\ loc[t].status = UsbStatusType_Success /\ loc[t].arg = 0)
             => /\ pc'[t] = "op_unlock" /\ loc'[t].ret
                /\ g_usbTransferRemainingSize' = 0
                /\ LinkUp'
          /\ (pc[t] = "op_body" /\ pc'[t] # "op_body" /\ loc[t].op = "sfd"
                /\ g_usbTransferRemainingSize = 0)
             => /\ pc'[t] = "sfd_end" /\ ~loc'[t].ret /\ ~InTransfer(t)'
                /\ g_usbTransferRemainingSize' = 0
          /\ (pc[t] # "ep_lock" /\ pc'[t] = "ep_lock" /\ loc'[t].op = "sfd"
                /\ loc'[t].ep = "out")
             => (fileSize > 0 /\ sent' = fileSize)
          /\ (pc[t] = "op_body" /\ pc'[t] # "op_body" /\ loc[t].op = "sfp"
                /\ LinkUp /\ g_usbTransferRemainingSize = 0
                /\ 1 <= loc'[t].len /\ loc'[t].len < FS_MAX_PATH)
             => /\ pc'[t] = "ep_lock" /\ loc'[t].ep = "in"
                /\ loc'[t].cmd = UsbCommandType_SendFileProperties ]_vars

\* usbSendFileProperties(0, name) was acknowledged and is about to return
\* true: the link is up and nothing remains to be sent.
C34_Witness ==
    \E t \in TransferThreads :
        /\ Returning(t, "sfp")
        /\ loc[t].ret /\ loc[t].arg = 0
        /\ LinkUp /\ g_usbTransferRemainingSize = 0


(***************************************************************************)
(* C33: whatever usbInitialize and usbExit calls are made, usbInitialize   *)
(* while the link is initialised and usbExit while a usbInitialize is in   *)
(* progress included, at most one detection thread is alive at any time,   *)
(* and when usbExit returns no detection thread is alive.  A detection     *)
(* thread is alive from the thrd_create that starts it until it returns.   *)
(***************************************************************************)
Alive(d) == pc[d] \notin {"none", "terminated"}
DetectionThreadsAlive == {d \in DOMAIN pc \ AppThreads : Alive(d)}

AtMostOneDetectionThread == Cardinality(DetectionThreadsAlive) <= 1

NoneAliveAfterExit ==
    [][ \A t \in AppThreads :
          (loc[t].op = "exit" /\ pc[t] # "idle" /\ pc'[t] = "idle")
          => DetectionThreadsAlive' = {} ]_vars

C33_OneDetectionThread == []AtMostOneDetectionThread /\ NoneAliveAfterExit

====
